---- MODULE Spec2Model ----
(***************************************************************************)
(* A model of skiller's core: the install/uninstall engine with the copy   *)
(* engine it drives (over a filesystem with directories, regular files and *)
(* symbolic links), and the registry configuration model.                  *)
(*                                                                         *)
(* A path is a sequence of names, <<>> being the root "/".  A filesystem   *)
(* is a function from the paths that exist (not following links) to nodes. *)
(* An error is a string, "" being Go's nil error.                          *)
(***************************************************************************)
EXTENDS Integers, Sequences, FiniteSets, TLC

VARIABLES fs, pre, call, ret, steps,
          regs, harn, disk, cpre, rcall, rret, rprev, rsteps,
          given, norm, prevNorm,
          cache, sync, synced, nsyncs

vars == <<fs, pre, call, ret, steps, regs, harn, disk, cpre, rcall, rret, rprev, rsteps,
          given, norm, prevNorm, cache, sync, synced, nsyncs>>

\* The install engine: the filesystem, and the last call with the
\* filesystem before it and what it returned.
fsVars == <<fs, pre, call, ret, steps>>

\* The configuration: the registries and harnesses in memory, the document
\* on disk, and the last call with the state before it, what it returned,
\* and the call before it.
cfgVars == <<regs, harn, disk, cpre, rcall, rret, rprev, rsteps>>

\* Registry identity: two registry records, what normalization made of
\* them, and what it made of them before the last renaming.
idVars == <<given, norm, prevNorm>>

\* Registry sync: the cache directories on disk, the SyncRegistry call in
\* progress or last returned, the registries whose working copy a
\* successful sync left in the cache, and the calls made so far.
syncVars == <<cache, sync, synced, nsyncs>>

-----------------------------------------------------------------------------
(* Bounds of the model.                                                    *)

\* Operations run in one behaviour of the install engine.
MaxOps == 2

\* Longest path (in names) a system call accepts: the stand-in for PATH_MAX.
MaxPathLen == 6

\* Largest suffix a rename install may take in the model (alpha-2, alpha-3, ...).
MaxSuffix == 4

-----------------------------------------------------------------------------
(* Lexical path arithmetic (path/filepath).                                *)

Dir(p) == IF p = <<>> THEN <<>> ELSE SubSeq(p, 1, Len(p) - 1)

Base(p) == IF p = <<>> THEN "/" ELSE p[Len(p)]

RECURSIVE Clean(_)
Clean(p) ==
  IF p = <<>> THEN <<>>
  ELSE LET c == Clean(Dir(p))
           n == p[Len(p)]
       IN  IF n = "." \/ n = "" \/ n = "/" THEN c
           ELSE IF n = ".." THEN Dir(c)
           ELSE Append(c, n)

Join(a, b) == Clean(a \o b)

IsPrefix(p, q) == Len(p) <= Len(q) /\ SubSeq(q, 1, Len(p)) = p

Rel(base, p) == SubSeq(p, Len(base) + 1, Len(p))

-----------------------------------------------------------------------------
(* The filesystem: nodes and path resolution.                              *)

DirNode(perm) == [kind |-> "dir", perm |-> perm, data |-> "", mtime |-> 0, target |-> <<>>]

FileNode(data, perm, mtime) ==
  [kind |-> "file", perm |-> perm, data |-> data, mtime |-> mtime, target |-> <<>>]

\* A link target that starts with "." or ".." is relative to the directory
\* that holds the link; any other is taken from the root.
LinkNode(target) == [kind |-> "link", perm |-> 777, data |-> "", mtime |-> 0, target |-> target]

Relative(target) == target # <<>> /\ Head(target) \in {".", ".."}

NoEntry == [ok |-> FALSE, creatable |-> FALSE, path |-> <<>>]

\* Resolve the names `rest` from the real directory `cur`.  Links in the
\* middle of a path are always followed, the last one only when `follow`.
\* ok: the entry exists (path is where); creatable: it does not, but its
\* parent directory does (path is where it would be made).
RECURSIVE Walk(_, _, _, _, _)
Walk(f, cur, rest, follow, fuel) ==
  IF rest = <<>> THEN [ok |-> cur \in DOMAIN f, creatable |-> FALSE, path |-> cur]
  ELSE IF cur \notin DOMAIN f \/ f[cur].kind # "dir" THEN NoEntry
  ELSE IF Head(rest) = "." THEN Walk(f, cur, Tail(rest), follow, fuel)
  ELSE IF Head(rest) = ".." THEN Walk(f, Dir(cur), Tail(rest), follow, fuel)
  ELSE LET nxt == Append(cur, Head(rest))
           tl  == Tail(rest)
       IN  IF nxt \notin DOMAIN f
             THEN [ok |-> FALSE, creatable |-> (tl = <<>>), path |-> nxt]
           ELSE IF f[nxt].kind = "link" /\ (tl # <<>> \/ follow)
             THEN IF fuel = 0 THEN NoEntry
                  ELSE Walk(f, IF Relative(f[nxt].target) THEN cur ELSE <<>>,
                            f[nxt].target \o tl, follow, fuel - 1)
           ELSE Walk(f, nxt, tl, follow, fuel)

Lookup(f, p, follow) ==
  IF Len(p) > MaxPathLen THEN NoEntry
  ELSE Walk(f, <<>>, p, follow, Cardinality(DOMAIN f))

\* os.Stat: follows links; os.Lstat: does not follow the last one.
Stat(f, p) == Lookup(f, p, TRUE)

Lstat(f, p) == Lookup(f, p, FALSE)

StatIsDir(f, p) == Stat(f, p).ok /\ f[Stat(f, p).path].kind = "dir"

\* The entry at the real path p with everything below it, and the tree
\* rooted at p as a function from relative paths (<<>> for p itself) to nodes.
Below(f, p) == {q \in DOMAIN f : IsPrefix(p, q)}

Tree(f, p) == [r \in {Rel(p, q) : q \in Below(f, p)} |-> f[p \o r]]

Restrict(f, S) == [q \in S |-> f[q]]

Put(f, p, node) == [q \in DOMAIN f \cup {p} |-> IF q = p THEN node ELSE f[q]]

-----------------------------------------------------------------------------
(* System calls.  Each returns [fs, err].                                  *)

\* F of the value v, v being computed once: the sequencing of two steps.
Bind(v, F(_)) == CHOOSE y \in {F(x) : x \in {v}} : TRUE

Ok(f) == [fs |-> f, err |-> ""]

Fail(f, e) == [fs |-> f, err |-> e]

\* The owner's permission bits: the calls are made by the owner of every
\* entry, who is not the superuser.
MayRead(perm) == (perm \div 100) \div 4 = 1

MayWrite(perm) == ((perm \div 100) \div 2) % 2 = 1

MaySearch(perm) == (perm \div 100) % 2 = 1

\* An entry can be made in the directory that would hold path.
MayCreate(f, path) == MayWrite(f[Dir(path)].perm) /\ MaySearch(f[Dir(path)].perm)

Mkdir(f, p, perm) ==
  LET r == Lstat(f, p)
  IN  IF r.ok THEN Fail(f, "EEXIST")
      ELSE IF ~r.creatable THEN Fail(f, "ENOENT")
      ELSE IF ~MayCreate(f, r.path) THEN Fail(f, "EACCES")
      ELSE Ok(Put(f, r.path, DirNode(perm)))

RECURSIVE MkdirAll(_, _, _)
MkdirAll(f, p, perm) ==
  IF Stat(f, p).ok
    THEN IF StatIsDir(f, p) THEN Ok(f) ELSE Fail(f, "ENOTDIR")
  ELSE Bind(IF Len(p) > 1 THEN MkdirAll(f, Dir(p), perm) ELSE Ok(f), LAMBDA up :
         IF up.err # "" THEN up
         ELSE Bind(Mkdir(up.fs, p, perm), LAMBDA made :
                IF made.err = "" THEN made
                ELSE IF Lstat(up.fs, p).ok /\ up.fs[Lstat(up.fs, p).path].kind = "dir"
                  THEN Ok(up.fs)
                ELSE made))

Chmod(f, p, perm) ==
  LET r == Stat(f, p)
  IN  IF ~r.ok THEN Fail(f, "ENOENT")
      ELSE Ok([f EXCEPT ![r.path].perm = perm])

Chtimes(f, p, t) ==
  LET r == Stat(f, p)
  IN  IF ~r.ok THEN Fail(f, "ENOENT")
      ELSE Ok([f EXCEPT ![r.path].mtime = t])

Symlink(f, target, p) ==
  LET r == Lstat(f, p)
  IN  IF r.ok THEN Fail(f, "EEXIST")
      ELSE IF ~r.creatable THEN Fail(f, "ENOENT")
      ELSE IF ~MayCreate(f, r.path) THEN Fail(f, "EACCES")
      ELSE Ok(Put(f, r.path, LinkNode(target)))

\* os.Remove: unlink, or rmdir of an empty directory.
Remove(f, p) ==
  LET r == Lstat(f, p)
  IN  IF ~r.ok THEN Fail(f, "ENOENT")
      ELSE IF f[r.path].kind = "dir" /\ Below(f, r.path) # {r.path} THEN Fail(f, "ENOTEMPTY")
      ELSE IF r.path = <<>> THEN Fail(f, "EBUSY")
      ELSE Ok(Restrict(f, DOMAIN f \ {r.path}))

\* os.RemoveAll: removes the entry and everything below it, never through a
\* link; a missing entry is no error.
RemoveAll(f, p) ==
  LET r == Lstat(f, p)
  IN  IF ~r.ok THEN Ok(f)
      ELSE IF r.path = <<>> THEN Fail(f, "EBUSY")
      ELSE Ok(Restrict(f, DOMAIN f \ Below(f, r.path)))

\* os.OpenFile(dst, O_CREATE|O_WRONLY|O_TRUNC, perm) and io.Copy of `data`.
WriteFile(f, p, data, perm) ==
  LET r == Stat(f, p)
  IN  IF r.ok
        THEN IF f[r.path].kind = "dir" THEN Fail(f, "EISDIR")
             ELSE IF ~MayWrite(f[r.path].perm) THEN Fail(f, "EACCES")
             ELSE Ok([f EXCEPT ![r.path].data = data, ![r.path].mtime = 9])
      ELSE IF ~r.creatable THEN Fail(f, "ENOENT")
      ELSE IF ~MayCreate(f, r.path) THEN Fail(f, "EACCES")
      ELSE Ok(Put(f, r.path, FileNode(data, perm, 9)))

-----------------------------------------------------------------------------
(* CopyEngine: fsutil.CopyDir.                                             *)

\* Every name of the model in byte order, the order filepath.WalkDir visits
\* the entries of a directory in.
BaseNames ==
  <<"SKILL.md", "alpha", "beta", "deep", "ext", "gone", "h", "nested", "new",
    "notes", "old", "ref", "reg", "run.sh", "shared">>

RECURSIVE Flatten(_)
Flatten(ss) == IF ss = <<>> THEN <<>> ELSE Head(ss) \o Flatten(Tail(ss))

Suffixed(name, i) == name \o "-" \o ToString(i)

NameOrder ==
  Flatten([k \in 1..Len(BaseNames) |->
            <<BaseNames[k]>> \o [i \in 1..MaxSuffix |-> Suffixed(BaseNames[k], i + 1)]])

\* ReadDir with every entry given the kind of what it resolves to.
ReadDirFollowing(f, p) ==
  LET r == Stat(f, p)
      present == SelectSeq(NameOrder, LAMBDA n : Append(r.path, n) \in DOMAIN f)
  IN  [k \in 1..Len(present) |->
        [name |-> present[k],
         kind |-> IF Stat(f, Append(p, present[k])).ok
                    THEN f[Stat(f, Append(p, present[k])).path].kind
                  ELSE f[Append(r.path, present[k])].kind]]

\* os.ReadDir as WalkDir uses it: the entries of a directory, sorted by name,
\* each with the kind it has when the directory is read.
ReadDir(f, p) ==
  LET r == Stat(f, p)
      present == SelectSeq(NameOrder, LAMBDA n : Append(r.path, n) \in DOMAIN f)
  IN  [k \in 1..Len(present) |->
        [name |-> present[k], kind |-> f[Append(r.path, present[k])].kind]]

copyFile(f, src, dst, perm) ==
  IF ~Stat(f, src).ok THEN Fail(f, "ENOENT")
  ELSE IF ~MayRead(f[Stat(f, src).path].perm) THEN Fail(f, "EACCES")
  ELSE Bind(MkdirAll(f, Dir(dst), 755), LAMBDA up :
         IF up.err # "" THEN up
         ELSE Bind(WriteFile(up.fs, dst,
                             IF Stat(up.fs, dst).ok /\ Stat(up.fs, dst).path = Stat(f, src).path
                               THEN ""
                             ELSE f[Stat(f, src).path].data,
                             perm),
                   LAMBDA out : IF out.err # "" THEN out ELSE Chmod(out.fs, dst, perm)))

copySymlink(f, path, target) ==
  IF ~Lstat(f, path).ok THEN Fail(f, "ENOENT")
  ELSE Bind(MkdirAll(f, Dir(target), 755), LAMBDA up :
         IF up.err # "" THEN up
         ELSE Bind(Symlink(up.fs, f[Lstat(f, path).path].target, target), LAMBDA first :
                IF first.err = "" THEN first
                ELSE IF first.err # "EEXIST" THEN first
                ELSE Bind(Remove(up.fs, target), LAMBDA rm :
                       IF rm.err # "" THEN rm
                       ELSE Symlink(rm.fs, f[Lstat(f, path).path].target, target))))

copyDirectory(f, target, perm) ==
  Bind(MkdirAll(f, target, perm), LAMBDA made :
    IF made.err # "" THEN made ELSE Chmod(made.fs, target, perm))

copyRegular(f, path, target, perm, mtime) ==
  Bind(copyFile(f, path, target, perm), LAMBDA done :
    IF done.err # "" THEN done ELSE Chtimes(done.fs, target, mtime))

\* CopyEntry with the symbolic-link branch lost: a link is passed over.
CopyEntryWithoutLinks(f, src, dst, path, kind) ==
  LET rel    == Rel(src, path)
      target == Join(dst, rel)
      info   == Lstat(f, path)
  IN  IF rel = <<>> \/ kind = "link" THEN Ok(f)
      ELSE IF ~info.ok THEN Fail(f, "ENOENT")
      ELSE IF kind = "dir" THEN copyDirectory(f, target, f[info.path].perm)
      ELSE IF kind # "file" THEN Ok(f)
      ELSE copyRegular(f, path, target, f[info.path].perm, f[info.path].mtime)

\* The callback CopyDir hands to WalkDir, for the entry `path` of kind `kind`.
CopyEntry(f, src, dst, path, kind) ==
  LET rel    == Rel(src, path)
      target == Join(dst, rel)
      info   == Lstat(f, path)
  IN  IF rel = <<>> THEN Ok(f)
      ELSE IF kind = "link" THEN copySymlink(f, path, target)
      ELSE IF ~info.ok THEN Fail(f, "ENOENT")
      ELSE IF kind = "dir" THEN copyDirectory(f, target, f[info.path].perm)
      ELSE IF kind # "file" THEN Ok(f)
      ELSE copyRegular(f, path, target, f[info.path].perm, f[info.path].mtime)

\* filepath.WalkDir: the callback on an entry first, then, for a directory,
\* its entries as read after the callback; the first error ends the walk.
RECURSIVE walkDir(_, _, _, _, _)
RECURSIVE walkEntries(_, _, _, _, _)
walkDir(f, src, dst, path, kind) ==
  Bind(CopyEntry(f, src, dst, path, kind), LAMBDA st :
    IF st.err # "" THEN st
    ELSE IF kind # "dir" THEN st
    ELSE IF ~Stat(st.fs, path).ok THEN Fail(st.fs, "ENOENT")
    ELSE IF ~MayRead(st.fs[Stat(st.fs, path).path].perm) THEN Fail(st.fs, "EACCES")
    ELSE Bind(ReadDir(st.fs, path), LAMBDA entries :
           walkEntries(st.fs, src, dst, path, entries)))

walkEntries(f, src, dst, path, entries) ==
  IF entries = <<>> THEN Ok(f)
  ELSE Bind(walkDir(f, src, dst, Append(path, Head(entries).name), Head(entries).kind),
            LAMBDA st :
              IF st.err # "" THEN st
              ELSE walkEntries(st.fs, src, dst, path, Tail(entries)))

CopyDir(f, src, dst) ==
  IF ~Stat(f, src).ok THEN Fail(f, "ENOENT")
  ELSE IF f[Stat(f, src).path].kind # "dir" THEN Fail(f, "source is not a directory")
  ELSE Bind(MkdirAll(f, dst, f[Stat(f, src).path].perm), LAMBDA made :
         IF made.err # "" THEN made
         ELSE Bind(Chmod(made.fs, dst, f[Stat(f, src).path].perm), LAMBDA mode :
                IF mode.err # "" THEN mode
                ELSE walkDir(mode.fs, src, dst, src, mode.fs[Lstat(mode.fs, src).path].kind)))

-----------------------------------------------------------------------------
(* InstallEngine: install.InstallSkill, install.UninstallSkill.            *)

ConflictSkip == "skip"

ConflictOverwrite == "overwrite"

ConflictRename == "rename"

InstallResult(installed, conflict, renamed, name, destination) ==
  [Installed |-> installed, Conflict |-> conflict, Renamed |-> renamed,
   Name |-> name, Destination |-> destination]

\* InstallResult{}: the zero value returned with every error.
NoResult == InstallResult(FALSE, FALSE, FALSE, "", <<>>)

exists(f, p) == Stat(f, p).ok

RECURSIVE probeDestination(_, _, _, _)
probeDestination(f, harnessPath, skillName, i) ==
  LET candidateName == Suffixed(skillName, i)
      candidatePath == Join(harnessPath, <<candidateName>>)
  IN  IF ~exists(f, candidatePath)
        THEN [path |-> candidatePath, name |-> candidateName, index |-> i]
      ELSE probeDestination(f, harnessPath, skillName, i + 1)

\* nextAvailableDestination with the probe started one too low.
nextAvailableDestinationFromOne(f, harnessPath, skillName) ==
  probeDestination(f, harnessPath, skillName, 1)

nextAvailableDestination(f, harnessPath, skillName) ==
  probeDestination(f, harnessPath, skillName, 2)

\* ResolveConflict with the RemoveAll of the overwrite case lost: the copy
\* lands on top of the previous occupant.
ResolveConflictWithoutRemove(f, harnessPath, skillName, destination, action) ==
  LET base == InstallResult(FALSE, TRUE, FALSE, skillName, destination)
  IN  IF action = ConflictSkip
        THEN [stop |-> TRUE, fs |-> f, err |-> "", res |-> base, destination |-> destination]
      ELSE IF action = ConflictOverwrite
        THEN [stop |-> FALSE, fs |-> f, err |-> "", res |-> base, destination |-> destination]
      ELSE IF action = ConflictRename
        THEN Bind(probeDestination(f, harnessPath, skillName, 2), LAMBDA next :
               [stop |-> FALSE, fs |-> f, err |-> "",
                res |-> InstallResult(FALSE, TRUE, TRUE, next.name, next.path),
                destination |-> next.path])
      ELSE [stop |-> TRUE, fs |-> f, err |-> "unknown conflict action", res |-> NoResult,
            destination |-> destination]

\* ResolveConflict with the default case lost: an unknown action falls out
\* of the switch and the copy goes ahead onto the occupied destination.
ResolveConflictWithoutDefault(f, harnessPath, skillName, destination, action) ==
  LET base == InstallResult(FALSE, TRUE, FALSE, skillName, destination)
  IN  IF action = ConflictSkip
        THEN [stop |-> TRUE, fs |-> f, err |-> "", res |-> base, destination |-> destination]
      ELSE IF action = ConflictOverwrite
        THEN Bind(RemoveAll(f, destination), LAMBDA rm :
               IF rm.err # ""
                 THEN [stop |-> TRUE, fs |-> rm.fs, err |-> rm.err, res |-> NoResult,
                       destination |-> destination]
               ELSE [stop |-> FALSE, fs |-> rm.fs, err |-> "", res |-> base,
                     destination |-> destination])
      ELSE IF action = ConflictRename
        THEN Bind(probeDestination(f, harnessPath, skillName, 2), LAMBDA next :
               [stop |-> FALSE, fs |-> f, err |-> "",
                res |-> InstallResult(FALSE, TRUE, TRUE, next.name, next.path),
                destination |-> next.path])
      ELSE [stop |-> FALSE, fs |-> f, err |-> "", res |-> base, destination |-> destination]

\* What the conflict switch decides once the destination exists.
\* stop: InstallSkill returns here with (res, err).
ResolveConflict(f, harnessPath, skillName, destination, action) ==
  LET base == InstallResult(FALSE, TRUE, FALSE, skillName, destination)
  IN  IF action = ConflictSkip
        THEN [stop |-> TRUE, fs |-> f, err |-> "", res |-> base, destination |-> destination]
      ELSE IF action = ConflictOverwrite
        THEN Bind(RemoveAll(f, destination), LAMBDA rm :
               IF rm.err # ""
                 THEN [stop |-> TRUE, fs |-> rm.fs, err |-> rm.err, res |-> NoResult,
                       destination |-> destination]
               ELSE [stop |-> FALSE, fs |-> rm.fs, err |-> "", res |-> base,
                     destination |-> destination])
      ELSE IF action = ConflictRename
        THEN Bind(nextAvailableDestination(f, harnessPath, skillName), LAMBDA next :
               [stop |-> FALSE, fs |-> f, err |-> "",
                res |-> InstallResult(FALSE, TRUE, TRUE, next.name, next.path),
                destination |-> next.path])
      ELSE [stop |-> TRUE, fs |-> f, err |-> "unknown conflict action", res |-> NoResult,
            destination |-> destination]

\* The copy that ends InstallSkill, to the destination the switch left.
finishInstall(c, skillSourcePath) ==
  IF c.stop THEN [fs |-> c.fs, err |-> c.err, res |-> c.res]
  ELSE Bind(CopyDir(c.fs, skillSourcePath, c.destination), LAMBDA copied :
         IF copied.err # "" THEN [fs |-> copied.fs, err |-> copied.err, res |-> NoResult]
         ELSE [fs |-> copied.fs, err |-> "", res |-> [c.res EXCEPT !.Installed = TRUE]])

InstallSkill(f, skillSourcePath, harnessPath, action) ==
  LET skillName   == Base(skillSourcePath)
      destination == Join(harnessPath, <<skillName>>)
  IN  IF ~Stat(f, skillSourcePath).ok THEN [fs |-> f, err |-> "ENOENT", res |-> NoResult]
      ELSE IF f[Stat(f, skillSourcePath).path].kind # "dir"
        THEN [fs |-> f, err |-> "skill source path is not a directory", res |-> NoResult]
      ELSE Bind(MkdirAll(f, harnessPath, 755), LAMBDA made :
             IF made.err # "" THEN [fs |-> made.fs, err |-> made.err, res |-> NoResult]
             ELSE Bind(IF exists(made.fs, destination)
                         THEN ResolveConflict(made.fs, harnessPath, skillName, destination, action)
                       ELSE [stop |-> FALSE, fs |-> made.fs, err |-> "",
                             res |-> InstallResult(FALSE, FALSE, FALSE, skillName, destination),
                             destination |-> destination],
                       LAMBDA c : finishInstall(c, skillSourcePath)))

\* markerError with the marker test lost: every directory passes.
markerErrorUnchecked(f, targetPath) == ""

\* The marker test of UninstallSkill: "" when targetPath/SKILL.md stats as
\* a non-directory.
markerError(f, targetPath) ==
  LET markerInfo == Stat(f, Join(targetPath, <<"SKILL.md">>))
  IN  IF ~markerInfo.ok THEN "target is not a valid installed skill"
      ELSE IF f[markerInfo.path].kind = "dir" THEN "invalid skill marker"
      ELSE ""

\* skillName is the sequence of the names it holds between separators
\* (<<>> for the empty string).
UninstallSkill(f, harnessPath, skillName) ==
  LET targetPath == Join(harnessPath, skillName)
      info       == Stat(f, targetPath)
  IN  IF ~info.ok THEN Fail(f, "ENOENT")
      ELSE IF f[info.path].kind # "dir" THEN Fail(f, "target path is not a directory")
      ELSE IF markerError(f, targetPath) # "" THEN Fail(f, markerError(f, targetPath))
      ELSE RemoveAll(f, targetPath)

-----------------------------------------------------------------------------
(* The install engine as a state machine: a filesystem, and the calls a    *)
(* client makes on it.  pre, call and ret record the filesystem before the *)
(* last call, the call and what it returned.                               *)

Source == <<"reg", "alpha">>

Harness == <<"h">>

\* The registry side: the skill reg/alpha (marker, a nested executable,
\* a link), a plain file next to it, and a skill outside every harness.
RegistrySide ==
  [p \in {<<>>, <<"reg">>, Source, Source \o <<"SKILL.md">>, Source \o <<"nested">>,
          Source \o <<"nested", "run.sh">>, Source \o <<"ref">>, <<"reg", "notes">>,
          <<"ext">>, <<"ext", "SKILL.md">>, Harness, Harness \o <<"beta">>,
          Harness \o <<"beta", "SKILL.md">>} |->
     CASE p = Source -> DirNode(750)
       [] p = Source \o <<"SKILL.md">> -> FileNode("# alpha", 644, 1)
       [] p = Source \o <<"nested">> -> DirNode(700)
       [] p = Source \o <<"nested", "run.sh">> -> FileNode("#!/bin/sh", 750, 2)
       [] p = Source \o <<"ref">> -> LinkNode(<<"reg", "shared">>)
       [] p = <<"reg", "notes">> -> FileNode("notes", 644, 3)
       [] p = <<"ext", "SKILL.md">> -> FileNode("# ext", 644, 4)
       [] p = Harness \o <<"beta", "SKILL.md">> -> FileNode("# beta", 644, 5)
       [] OTHER -> DirNode(755)]

Merge(f, g) == [p \in DOMAIN f \cup DOMAIN g |-> IF p \in DOMAIN g THEN g[p] ELSE f[p]]

\* What may already sit at a harness entry before the first call.
Occupant(p, shape) ==
  CASE shape = "skill" ->
         [q \in {p, p \o <<"SKILL.md">>, p \o <<"old">>} |->
            IF q = p THEN DirNode(755)
            ELSE IF q = p \o <<"old">> THEN FileNode("old", 600, 6)
            ELSE FileNode("# installed", 644, 7)]
    [] shape = "nomarker" -> [q \in {p} |-> DirNode(755)]
    [] shape = "dirmarker" ->
         [q \in {p, p \o <<"SKILL.md">>} |-> DirNode(755)]
    [] shape = "file" -> [q \in {p} |-> FileNode("plain", 644, 8)]
    [] shape = "link" -> [q \in {p} |-> LinkNode(<<"ext">>)]
    [] shape = "dangling" -> [q \in {p} |-> LinkNode(<<"gone">>)]
    [] OTHER -> [q \in {} |-> DirNode(755)]

FirstShapes == {"absent", "skill", "nomarker", "dirmarker", "file", "link", "dangling"}

SecondShapes == {"absent", "skill", "dangling"}

InitialFS ==
  {Merge(Merge(RegistrySide, Occupant(Harness \o <<"alpha">>, a)),
         Occupant(Harness \o <<Suffixed("alpha", 2)>>, b)) :
     a \in FirstShapes, b \in SecondShapes}

Sources == {Source, <<"reg", "notes">>, <<"reg", "missing">>}

Harnesses == {Harness, <<"new", "deep">>, <<"reg">>, <<"reg", "notes", "h">>}

Actions == {ConflictSkip, ConflictOverwrite, ConflictRename, "merge"}

SkillNames ==
  {<<"alpha">>, <<Suffixed("alpha", 2)>>, <<>>, <<"..">>, <<"..", "ext">>}

NoCall == [op |-> "none", source |-> <<>>, harness |-> <<>>, action |-> "", skill |-> <<>>]

NoCfgCall == [op |-> "none", arg |-> <<>>]

NoDoc == [kind |-> "missing", registries |-> <<>>, harnesses |-> <<>>]

CfgIdle ==
  /\ regs = <<>>
  /\ harn = <<>>
  /\ disk = NoDoc
  /\ cpre = [regs |-> <<>>, harn |-> <<>>, disk |-> NoDoc]
  /\ rcall = NoCfgCall
  /\ rret = [err |-> ""]
  /\ rprev = [call |-> NoCfgCall, err |-> ""]
  /\ rsteps = 0

NoNorm == [done |-> FALSE]

IdIdle ==
  /\ given = <<>>
  /\ norm = NoNorm
  /\ prevNorm = NoNorm

\* No git command, no error, and no SyncRegistry call yet.
NoCommand == [cmd |-> "", dir |-> <<>>, ref |-> <<>>, source |-> <<>>, target |-> <<>>,
              promptOff |-> FALSE, stdio |-> ""]

NoSyncError == [step |-> "", err |-> ""]

NoSync ==
  [pc |-> "idle", op |-> "none",
   registry |-> [ID |-> <<>>, Name |-> <<>>, Type |-> <<>>, Source |-> <<>>, Ref |-> <<>>,
                 Subdir |-> <<>>],
   interactive |-> FALSE, timeout |-> 0, repoPath |-> <<>>, expired |-> FALSE,
   running |-> NoCommand, log |-> <<>>, err |-> NoSyncError, wasSynced |-> FALSE,
   before |-> <<>>]

SyncIdle ==
  /\ cache = <<>>
  /\ sync = NoSync
  /\ synced = {}
  /\ nsyncs = 0

InitInstall ==
  /\ fs \in InitialFS
  /\ pre = fs
  /\ call = NoCall
  /\ ret = [err |-> "", res |-> NoResult]
  /\ steps = 0
  /\ CfgIdle
  /\ IdIdle
  /\ SyncIdle

\* The rename probe stays within the suffixes the model names.
WithinSuffixes(f, source, harness, action) ==
  action = ConflictRename =>
    \A made \in {MkdirAll(f, harness, 755)} :
      made.err = "" => nextAvailableDestination(made.fs, harness, Base(source)).index <= MaxSuffix

Install(source, harness, action) ==
  /\ steps < MaxOps
  /\ WithinSuffixes(fs, source, harness, action)
  /\ \E out \in {InstallSkill(fs, source, harness, action)} :
       /\ fs' = out.fs
       /\ ret' = [err |-> out.err, res |-> out.res]
  /\ pre' = fs
  /\ call' = [op |-> "install", source |-> source, harness |-> harness,
              action |-> action, skill |-> <<>>]
  /\ steps' = steps + 1
  /\ UNCHANGED <<cfgVars, idVars, syncVars>>

Uninstall(harness, skillName) ==
  /\ steps < MaxOps
  /\ \E out \in {UninstallSkill(fs, harness, skillName)} :
       /\ fs' = out.fs
       /\ ret' = [err |-> out.err, res |-> NoResult]
  /\ pre' = fs
  /\ call' = [op |-> "uninstall", source |-> <<>>, harness |-> harness,
              action |-> "", skill |-> skillName]
  /\ steps' = steps + 1
  /\ UNCHANGED <<cfgVars, idVars, syncVars>>

NextInstall ==
  \/ \E s \in Sources, h \in Harnesses, a \in Actions : Install(s, h, a)
  \/ \E h \in Harnesses, n \in SkillNames : Uninstall(h, n)

SpecInstall == InitInstall /\ [][NextInstall]_vars

-----------------------------------------------------------------------------
(* Properties of the install engine.  They speak of the last call: of the  *)
(* filesystem before it (pre), its arguments (call), what it returned      *)
(* (ret) and the filesystem after it (fs).                                 *)

KnownActions == {ConflictSkip, ConflictOverwrite, ConflictRename}

Installing == call.op = "install"

Uninstalling == call.op = "uninstall"

Succeeded == ret.err = ""

\* harness/basename(source), the destination candidate of the last install.
Candidate == Join(call.harness, <<Base(call.source)>>)

SourceIsDir == StatIsDir(pre, call.source)

\* An entry of any kind sits at p (a link is not followed).
EntryAt(f, p) == Lstat(f, p).ok

\* Every name on the way to the harness that exists is a directory, so the
\* harness is there or can be made.
HarnessUsable ==
  \A k \in 0..Len(call.harness) :
    LET q == SubSeq(call.harness, 1, k) IN EntryAt(pre, q) => StatIsDir(pre, q)

\* Every entry outside the tree at p is the same before and after the call.
SameOutside(p) ==
  /\ \A q \in DOMAIN pre : ~IsPrefix(p, q) => q \in DOMAIN fs /\ fs[q] = pre[q]
  /\ \A q \in DOMAIN fs : ~IsPrefix(p, q) => q \in DOMAIN pre

\* Every entry there was before the call is still there, the same.
NothingLost == \A q \in DOMAIN pre : q \in DOMAIN fs /\ fs[q] = pre[q]

\* The tree at destination p is a copy of the source tree as it was.
CopiedTo(p) == EntryAt(fs, p) /\ Tree(fs, Lstat(fs, p).path) = Tree(pre, Stat(pre, call.source).path)

\* The target of the last uninstall, and whether it was a directory that
\* directly holds a non-directory SKILL.md.
Target == Join(call.harness, call.skill)

TargetIsSkill ==
  /\ StatIsDir(pre, Target)
  /\ Stat(pre, Target \o <<"SKILL.md">>).ok
  /\ pre[Stat(pre, Target \o <<"SKILL.md">>).path].kind # "dir"

\* C1: UninstallSkill deletes only when harness/skillName is a directory
\* that directly holds a non-directory SKILL.md; otherwise it returns an
\* error and the filesystem is unchanged; when it succeeds the target is gone
\* and every entry outside the target is unchanged.
C1_UninstallRequiresMarker ==
  Uninstalling =>
    /\ fs # pre => TargetIsSkill
    /\ ~TargetIsSkill => ret.err # "" /\ fs = pre
    /\ (TargetIsSkill /\ Succeeded) =>
         /\ ~EntryAt(fs, Target)
         /\ SameOutside(Lstat(pre, Target).path)
         /\ fs = Restrict(pre, DOMAIN pre \ Below(pre, Lstat(pre, Target).path))

C1_Witness ==
  /\ Uninstalling /\ Succeeded /\ TargetIsSkill
  /\ fs # pre
  /\ ~EntryAt(fs, Target)
  /\ Harness \o <<"beta", "SKILL.md">> \in DOMAIN fs

\* C2: for every InstallSkill call, with any action and any harness (the
\* parent directory of the source included), the source tree is the same
\* after the call as before it.
C2_SourceNeverMutated ==
  Installing => Tree(fs, call.source) = Tree(pre, call.source)

\* C3: when an entry exists at harness/basename(source) and the action is
\* skip, InstallSkill returns no error with Conflict=true, Installed=false,
\* Renamed=false, and the filesystem is exactly as before.
C3_SkipLeavesHarness ==
  (Installing /\ SourceIsDir /\ call.action = ConflictSkip /\ EntryAt(pre, Candidate)) =>
    /\ Succeeded
    /\ ret.res.Conflict /\ ~ret.res.Installed /\ ~ret.res.Renamed
    /\ fs = pre

\* C4: when an entry exists at harness/basename(source) and the action is
\* overwrite, after a successful call the destination is a copy of the
\* source with nothing of the previous occupant left, every entry outside
\* it is unchanged, and the result is Installed=true, Conflict=true,
\* Renamed=false, Name=basename(source).
C4_OverwriteReplaces ==
  (Installing /\ SourceIsDir /\ call.action = ConflictOverwrite
     /\ EntryAt(pre, Candidate) /\ Succeeded) =>
    /\ CopiedTo(Candidate)
    /\ SameOutside(Candidate)
    /\ ret.res = InstallResult(TRUE, TRUE, FALSE, Base(call.source), Candidate)

C4_Witness ==
  /\ Installing /\ call.action = ConflictOverwrite /\ Succeeded
  /\ Candidate \o <<"old">> \in DOMAIN pre
  /\ Candidate \o <<"old">> \notin DOMAIN fs
  /\ Candidate \o <<"nested", "run.sh">> \in DOMAIN fs

\* The least k >= 2 such that no entry named name-k exists under harness h.
RECURSIVE LeastFree(_, _, _, _)
LeastFree(f, h, name, k) ==
  IF ~EntryAt(f, Join(h, <<Suffixed(name, k)>>)) THEN k ELSE LeastFree(f, h, name, k + 1)

C6_FreshInstallCopies ==
  /\ (Installing /\ SourceIsDir /\ call.action \in KnownActions /\ ~EntryAt(pre, Candidate)) =>
       /\ HarnessUsable => Succeeded
       /\ Succeeded =>
            /\ StatIsDir(fs, call.harness)
            /\ CopiedTo(Candidate)
            /\ NothingLost
            /\ ret.res = InstallResult(TRUE, FALSE, FALSE, Base(call.source), Candidate)
  /\ (Installing /\ ~SourceIsDir) => ret.err # "" /\ fs = pre /\ ret.res = NoResult

C6_Witness ==
  /\ Installing /\ Succeeded /\ call.action = ConflictOverwrite
  /\ ~EntryAt(pre, call.harness)
  /\ StatIsDir(fs, call.harness)
  /\ ret.res.Installed /\ ~ret.res.Conflict
  /\ Candidate \o <<"ref">> \in DOMAIN fs

\* C7, as claimed: an install with an action that is none of skip,
\* overwrite, rename fails with the unknown-conflict-action error and
\* changes nothing, whether the destination is occupied or free.
C7_UnknownActionAlwaysFails ==
  (Installing /\ SourceIsDir /\ HarnessUsable /\ call.action \notin KnownActions) =>
    /\ ret.err = "unknown conflict action"
    /\ fs = pre

\* C7, amended: such an install fails with the unknown-conflict-action
\* error and changes nothing when os.Stat finds an entry at
\* harness/basename(source); when no entry is there the action is never
\* looked at and the install goes through as a fresh install.
C7_UnknownActionFailsOnConflict ==
  (Installing /\ SourceIsDir /\ HarnessUsable /\ call.action \notin KnownActions) =>
    /\ Stat(pre, Candidate).ok =>
         ret.err = "unknown conflict action" /\ fs = pre /\ ret.res = NoResult
    /\ ~EntryAt(pre, Candidate) =>
         /\ Succeeded
         /\ CopiedTo(Candidate)
         /\ NothingLost
         /\ ret.res = InstallResult(TRUE, FALSE, FALSE, Base(call.source), Candidate)

C7_Witness ==
  /\ Installing /\ call.action \notin KnownActions
  /\ Stat(pre, Candidate).ok
  /\ ret.err = "unknown conflict action"
  /\ fs = pre

-----------------------------------------------------------------------------
(* RegistryModel (package config).  A string is the sequence of its        *)
(* characters.                                                             *)

S(s) == [i \in 1..Len(s) |-> SubSeq(s, i, i)]

\* The characters of the model in byte order, for Go's string comparison.
CharOrder == S(" #$-./:@Vaceghilmnoprstuvwxy|~")

Rank(c) == CHOOSE i \in 1..Len(CharOrder) : CharOrder[i] = c

RECURSIVE StrLess(_, _)
StrLess(a, b) ==
  IF b = <<>> THEN FALSE
  ELSE IF a = <<>> THEN TRUE
  ELSE IF Head(a) = Head(b) THEN StrLess(Tail(a), Tail(b))
  ELSE Rank(Head(a)) < Rank(Head(b))

Letters == {"V", "a", "c", "e", "g", "h", "i", "l", "m", "n", "o", "p", "r", "s", "t",
            "u", "v", "w", "x", "y"}

Front(s) == SubSeq(s, 1, Len(s) - 1)

From(s, i) == SubSeq(s, i, Len(s))

RECURSIVE TrimLeft(_, _)
TrimLeft(s, cut) == IF s # <<>> /\ Head(s) \in cut THEN TrimLeft(Tail(s), cut) ELSE s

RECURSIVE TrimRight(_, _)
TrimRight(s, cut) == IF s # <<>> /\ s[Len(s)] \in cut THEN TrimRight(Front(s), cut) ELSE s

\* strings.Trim(s, cutset) and strings.TrimSpace.
Trim(s, cut) == TrimRight(TrimLeft(s, cut), cut)

TrimSpace(s) == Trim(s, {" ", "\n"})

HasPrefix(s, prefix) == Len(s) >= Len(prefix) /\ SubSeq(s, 1, Len(prefix)) = prefix

HasSuffix(s, suffix) == Len(s) >= Len(suffix) /\ From(s, Len(s) - Len(suffix) + 1) = suffix

TrimPrefix(s, prefix) == IF HasPrefix(s, prefix) THEN From(s, Len(prefix) + 1) ELSE s

TrimSuffix(s, suffix) == IF HasSuffix(s, suffix) THEN SubSeq(s, 1, Len(s) - Len(suffix)) ELSE s

\* strings.Index and strings.LastIndex of one character, as positions from
\* 1, 0 standing for Go's -1.
Index(s, c) ==
  IF \E i \in 1..Len(s) : s[i] = c
    THEN CHOOSE i \in 1..Len(s) : s[i] = c /\ \A j \in 1..(i - 1) : s[j] # c
  ELSE 0

LastIndex(s, c) ==
  IF \E i \in 1..Len(s) : s[i] = c
    THEN CHOOSE i \in 1..Len(s) : s[i] = c /\ \A j \in (i + 1)..Len(s) : s[j] # c
  ELSE 0

\* The non-empty elements of a path between its separators.
RECURSIVE SplitPath(_)
SplitPath(s) ==
  IF s = <<>> THEN <<>>
  ELSE IF Head(s) = "/" THEN SplitPath(Tail(s))
  ELSE IF Index(s, "/") = 0 THEN <<s>>
  ELSE <<SubSeq(s, 1, Index(s, "/") - 1)>> \o SplitPath(From(s, Index(s, "/") + 1))

RECURSIVE JoinSlash(_)
JoinSlash(elems) ==
  IF elems = <<>> THEN <<>>
  ELSE IF Len(elems) = 1 THEN elems[1]
  ELSE elems[1] \o <<"/">> \o JoinSlash(Tail(elems))

\* The elements filepath.Clean keeps: "." dropped, ".." taking back the
\* element before it (dropped at the root, kept at the start of a relative path).
CleanStep(kept, elem, rooted) ==
  IF elem = S(".") THEN kept
  ELSE IF elem = S("..")
    THEN IF kept # <<>> /\ kept[Len(kept)] # S("..") THEN Front(kept)
         ELSE IF rooted THEN kept
         ELSE Append(kept, elem)
  ELSE Append(kept, elem)

RECURSIVE CleanElems(_, _, _)
CleanElems(kept, elems, rooted) ==
  IF elems = <<>> THEN kept
  ELSE Bind(CleanStep(kept, Head(elems), rooted),
            LAMBDA k : CleanElems(k, Tail(elems), rooted))

filepathClean(s) ==
  IF s = <<>> THEN S(".")
  ELSE IF Head(s) = "/" THEN <<"/">> \o JoinSlash(CleanElems(<<>>, SplitPath(s), TRUE))
  ELSE IF CleanElems(<<>>, SplitPath(s), FALSE) = <<>> THEN S(".")
  ELSE JoinSlash(CleanElems(<<>>, SplitPath(s), FALSE))

\* filepath.Join: the non-empty elements joined by "/" and cleaned.
filepathJoin(elems) ==
  IF SelectSeq(elems, LAMBDA e : e # <<>>) = <<>> THEN <<>>
  ELSE filepathClean(JoinSlash(SelectSeq(elems, LAMBDA e : e # <<>>)))

\* The process environment: $V, the home directory, the working directory
\* and the cache root.
Getenv(name) == IF name = S("V") THEN S("/v") ELSE <<>>

UserHomeDir == S("/u")

Getwd == S("/w")

CacheRoot == S("/c")

NameLen(s) == IF \E i \in 1..Len(s) : s[i] \notin Letters
                THEN (CHOOSE i \in 1..Len(s) : s[i] \notin Letters /\ \A j \in 1..(i - 1) : s[j] \in Letters) - 1
              ELSE Len(s)

\* os.ExpandEnv: $name is replaced by the variable's value, $ before one of
\* the shell's special characters by nothing; any other $ stays.
RECURSIVE ExpandEnv(_)
ExpandEnv(s) ==
  IF s = <<>> THEN <<>>
  ELSE IF Head(s) # "$" \/ Len(s) = 1 THEN <<Head(s)>> \o ExpandEnv(Tail(s))
  ELSE IF s[2] \in {"#", "$", "@", "-"} THEN ExpandEnv(From(s, 3))
  ELSE IF NameLen(Tail(s)) = 0 THEN <<"$">> \o ExpandEnv(Tail(s))
  ELSE Getenv(SubSeq(s, 2, 1 + NameLen(Tail(s)))) \o ExpandEnv(From(s, 2 + NameLen(Tail(s))))

filepathAbs(s) == IF HasPrefix(s, S("/")) THEN filepathClean(s) ELSE filepathJoin(<<Getwd, s>>)

\* A result with an error flag: [ok, val].
Good(v) == [ok |-> TRUE, val |-> v]

Bad(v) == [ok |-> FALSE, val |-> v]

ExpandTilde(expanded) ==
  IF expanded = S("~") THEN UserHomeDir
  ELSE IF HasPrefix(expanded, S("~/")) THEN filepathJoin(<<UserHomeDir, TrimPrefix(expanded, S("~/"))>>)
  ELSE expanded

ExpandPath(path) ==
  IF TrimSpace(path) = <<>> THEN Bad(<<>>)
  ELSE Good(filepathClean(filepathAbs(ExpandTilde(ExpandEnv(TrimSpace(path))))))

\* net/url.Parse, on the characters of the model (no digits, no "?", "%",
\* "[").  SchemeEnd is getScheme: the position of the ":" that ends the
\* scheme, 0 for no scheme, -1 for a leading ":".
SchemeStops(u) == {i \in 1..Len(u) : u[i] \notin Letters /\ ~(i > 1 /\ u[i] \in {"-", "."})}

SchemeEnd(u) ==
  IF SchemeStops(u) = {} THEN 0
  ELSE LET i == CHOOSE k \in SchemeStops(u) : \A j \in SchemeStops(u) : k <= j
       IN  IF u[i] # ":" THEN 0 ELSE IF i = 1 THEN -1 ELSE i

ToLower(s) == [i \in 1..Len(s) |-> IF s[i] = "V" THEN "v" ELSE s[i]]

URL(scheme, host, path) == [Scheme |-> scheme, Host |-> host, Path |-> path]

\* The authority of "//authority/path" and the path after it.
urlAuthority(rest) ==
  IF Index(From(rest, 3), "/") = 0 THEN From(rest, 3)
  ELSE SubSeq(From(rest, 3), 1, Index(From(rest, 3), "/") - 1)

urlPath(rest) ==
  IF Index(From(rest, 3), "/") = 0 THEN <<>>
  ELSE From(From(rest, 3), Index(From(rest, 3), "/"))

urlHost(authority) == From(authority, LastIndex(authority, "@") + 1)

\* parseAuthority: user info and host hold no character that must be
\* escaped, and the port after the host's last ":" is empty or digits.
validAuthority(authority) ==
  /\ \A i \in 1..Len(authority) : authority[i] \notin {" ", "|"}
  /\ LastIndex(urlHost(authority), ":") \in {0, Len(urlHost(authority))}

urlParseRest(scheme, rest) ==
  IF ~HasPrefix(rest, S("/"))
    THEN IF scheme # <<>> THEN Good(URL(scheme, <<>>, <<>>))
         ELSE IF Index(IF Index(rest, "/") = 0 THEN rest
                       ELSE SubSeq(rest, 1, Index(rest, "/") - 1), ":") # 0
           THEN Bad("first path segment in URL cannot contain colon")
         ELSE Good(URL(<<>>, <<>>, rest))
  ELSE IF HasPrefix(rest, S("//")) /\ (scheme # <<>> \/ ~HasPrefix(rest, S("///")))
    THEN IF validAuthority(urlAuthority(rest))
           THEN Good(URL(scheme, urlHost(urlAuthority(rest)), urlPath(rest)))
         ELSE Bad("invalid authority")
  ELSE Good(URL(scheme, <<>>, rest))

urlParse(rawURL) ==
  LET u == IF Index(rawURL, "#") = 0 THEN rawURL ELSE SubSeq(rawURL, 1, Index(rawURL, "#") - 1)
  IN  IF SchemeEnd(u) = -1 THEN Bad("missing protocol scheme")
      ELSE IF SchemeEnd(u) = 0 THEN urlParseRest(<<>>, u)
      ELSE urlParseRest(ToLower(SubSeq(u, 1, SchemeEnd(u) - 1)), From(u, SchemeEnd(u) + 1))

acceptedURL(parsed) ==
  IF ~parsed.ok THEN FALSE
  ELSE IF parsed.val.Host = <<>> THEN FALSE
  ELSE IF parsed.val.Scheme \in {S("https"), S("http"), S("ssh")} THEN parsed.val.Path # <<>>
  ELSE FALSE

IsGitSource(source) ==
  Bind(TrimSpace(source), LAMBDA trimmed :
    IF trimmed = <<>> THEN FALSE
    ELSE IF HasPrefix(trimmed, S("git@")) \/ HasPrefix(trimmed, S("ssh://"))
            \/ HasPrefix(trimmed, S("git://")) THEN TRUE
    ELSE Bind(urlParse(trimmed), LAMBDA parsed : acceptedURL(parsed)))

\* splitGitRef: <<source, ref>>.  Go's idx <= 0 || idx >= len(input)-1 in
\* positions from 1.
splitGitRef(input) ==
  IF LastIndex(input, "#") <= 1 \/ LastIndex(input, "#") >= Len(input) THEN <<input, <<>>>>
  ELSE <<TrimSpace(SubSeq(input, 1, LastIndex(input, "#") - 1)),
         TrimSpace(From(input, LastIndex(input, "#") + 1))>>

RegistryTypeLocal == S("local")

RegistryTypeGit == S("git")

Registry(id, name, type, source, ref, subdir) ==
  [ID |-> id, Name |-> name, Type |-> type, Source |-> source, Ref |-> ref, Subdir |-> subdir]

DisplayName(r) ==
  LET trimmed == TrimSuffix(TrimSpace(r.Source), S(".git"))
  IN  IF TrimSpace(r.Name) # <<>> THEN TrimSpace(r.Name)
      ELSE IF r.Type = RegistryTypeGit /\ LastIndex(trimmed, "/") >= 1
              /\ LastIndex(trimmed, "/") < Len(trimmed)
        THEN From(trimmed, LastIndex(trimmed, "/") + 1)
      ELSE IF r.Type = RegistryTypeGit /\ LastIndex(trimmed, ":") >= 1
              /\ LastIndex(trimmed, ":") < Len(trimmed)
        THEN From(trimmed, LastIndex(trimmed, ":") + 1)
      ELSE TrimSpace(r.Source)

\* The SHA-1 digest in hexadecimal, taken as an injective image of its
\* input: one symbol per character, none of them a character of a path.
sha1Hex(key) == [i \in 1..Len(key) |-> "%" \o key[i]]

registryIDKeyed(registry) ==
  sha1Hex(registry.Type \o S("|") \o registry.Source \o S("|") \o registry.Ref \o S("|")
          \o registry.Subdir \o S("|") \o registry.Name)

registryID(registry) ==
  sha1Hex(registry.Type \o S("|") \o registry.Source \o S("|") \o registry.Ref \o S("|")
          \o registry.Subdir)

\* normalizeRegistry, in the order of its statements.
trimFields(registry) ==
  [registry EXCEPT !.Name = TrimSpace(registry.Name),
                   !.Source = TrimSpace(registry.Source),
                   !.Ref = TrimSpace(registry.Ref),
                   !.Subdir = Trim(TrimSpace(registry.Subdir), {"/"})]

inferType(normalized) ==
  IF normalized.Type # <<>> THEN normalized
  ELSE IF IsGitSource(normalized.Source) THEN [normalized EXCEPT !.Type = RegistryTypeGit]
  ELSE [normalized EXCEPT !.Type = RegistryTypeLocal]

checkSource(normalized) ==
  IF normalized.Source = <<>> THEN Bad("registry source is empty")
  ELSE IF normalized.Type = RegistryTypeLocal
    THEN IF ~ExpandPath(normalized.Source).ok THEN Bad("path is empty")
         ELSE Good([normalized EXCEPT !.Source = ExpandPath(normalized.Source).val,
                                      !.Ref = <<>>])
  ELSE IF normalized.Type = RegistryTypeGit
    THEN IF ~IsGitSource(normalized.Source) THEN Bad("invalid git registry source")
         ELSE Good(normalized)
  ELSE Bad("unsupported registry type")

cleanSubdir(normalized) ==
  IF normalized.Subdir = <<>> THEN normalized
  ELSE IF filepathClean(normalized.Subdir) = S(".") THEN [normalized EXCEPT !.Subdir = <<>>]
  ELSE [normalized EXCEPT !.Subdir = filepathClean(normalized.Subdir)]

assignID(normalized) ==
  IF TrimSpace(normalized.ID) = <<>> THEN [normalized EXCEPT !.ID = registryID(normalized)]
  ELSE [normalized EXCEPT !.ID = TrimSpace(normalized.ID)]

normalizeRegistry(registry) ==
  \* Each stage is bound once: the next one reads its record many times.
  Bind(trimFields(registry), LAMBDA trimmed :
    Bind(inferType(trimmed), LAMBDA typed :
      Bind(checkSource(typed), LAMBDA checked :
        IF ~checked.ok THEN Bad(checked.val)
        ELSE Bind(cleanSubdir(checked.val), LAMBDA cleaned : Good(assignID(cleaned))))))

RegistryCachePath(registry) ==
  Bind(normalizeRegistry(registry),
       LAMBDA normalized :
         IF ~normalized.ok THEN Bad(normalized.val)
         ELSE Good(filepathJoin(<<CacheRoot, S("skiller"), S("registries"),
                                  normalized.val.ID, S("repo")>>)))

\* The collections of registries.
RECURSIVE normalizeRegistries(_)
normalizeRegistries(registries) ==
  IF registries = <<>> THEN <<>>
  ELSE (IF normalizeRegistry(Head(registries)).ok
          THEN <<normalizeRegistry(Head(registries)).val>> ELSE <<>>)
       \o normalizeRegistries(Tail(registries))

appendRegistryUnchecked(registries, registry) == Append(registries, registry)

appendUniqueRegistry(registries, registry) ==
  IF \E i \in 1..Len(registries) :
       \/ registries[i].ID = registry.ID
       \/ /\ registries[i].Type = registry.Type
          /\ registries[i].Source = registry.Source
          /\ registries[i].Ref = registry.Ref
          /\ registries[i].Subdir = registry.Subdir
    THEN registries
  ELSE Append(registries, registry)

\* The loop of dedupeRegistries: an entry is kept unless normalization
\* rejects it or an entry with its id was kept before.
keepUnseen(out, registry) ==
  Bind(normalizeRegistry(registry),
       LAMBDA normalized :
         IF ~normalized.ok THEN out
         ELSE IF \E i \in 1..Len(out) : out[i].ID = normalized.val.ID THEN out
         ELSE Append(out, normalized.val))

RECURSIVE dedupeSeen(_, _)
dedupeSeen(out, registries) ==
  IF registries = <<>> THEN out
  ELSE Bind(keepUnseen(out, Head(registries)), LAMBDA o : dedupeSeen(o, Tail(registries)))

\* The less function given to sort.Slice.
compareNames(a, b, nameA, nameB) ==
  IF a.Type = b.Type
    THEN IF nameA = nameB THEN StrLess(a.Source, b.Source)
         ELSE StrLess(nameA, nameB)
  ELSE StrLess(a.Type, b.Type)

registryLess(a, b) ==
  Bind(DisplayName(a), LAMBDA nameA :
    Bind(DisplayName(b), LAMBDA nameB : compareNames(a, b, nameA, nameB)))

\* sort.Slice on the short slices of the model is an insertion sort: each
\* entry moves left while it is less than the entry before it.
RECURSIVE insertRegistry(_, _)
insertRegistry(sorted, r) ==
  IF sorted = <<>> THEN <<r>>
  ELSE IF registryLess(r, sorted[Len(sorted)])
    THEN Append(insertRegistry(Front(sorted), r), sorted[Len(sorted)])
  ELSE Append(sorted, r)

RECURSIVE sortRegistries(_, _)
sortRegistries(sorted, rest) ==
  IF rest = <<>> THEN sorted
  ELSE Bind(insertRegistry(sorted, Head(rest)), LAMBDA t : sortRegistries(t, Tail(rest)))

dedupeRegistries(registries) == sortRegistries(<<>>, dedupeSeen(<<>>, registries))

\* The collections of harness paths.
RECURSIVE dedupePaths(_)
dedupePaths(paths) ==
  IF paths = <<>> THEN <<>>
  ELSE Bind(dedupePaths(Front(paths)),
            LAMBDA out : IF \E i \in 1..Len(out) : out[i] = filepathClean(paths[Len(paths)])
                           THEN out
                         ELSE Append(out, filepathClean(paths[Len(paths)])))

RECURSIVE expandPaths(_)
expandPaths(paths) ==
  IF paths = <<>> THEN <<>>
  ELSE (IF ExpandPath(Head(paths)).ok THEN <<ExpandPath(Head(paths)).val>> ELSE <<>>)
       \o expandPaths(Tail(paths))

normalizePaths(paths) == dedupePaths(expandPaths(paths))

appendUniquePath(paths, path) ==
  IF \E i \in 1..Len(paths) : filepathClean(paths[i]) = filepathClean(path) THEN paths
  ELSE Append(paths, filepathClean(path))

removePath(paths, target) ==
  SelectSeq(paths, LAMBDA path : filepathClean(path) # filepathClean(target))

\* The configuration and its operations: each returns the configuration
\* it leaves and its error.
Config(registries, harnesses) == [Registries |-> registries, Harnesses |-> harnesses]

Done(c) == [cfg |-> c, err |-> ""]

Failed(c, e) == [cfg |-> c, err |-> e]

AddLocalRegistry(c, path) ==
  IF ~ExpandPath(path).ok THEN Failed(c, "path is empty")
  ELSE Bind(normalizeRegistry(Registry(<<>>, <<>>, RegistryTypeLocal, ExpandPath(path).val,
                                       <<>>, <<>>)),
            LAMBDA registry :
              IF ~registry.ok THEN Failed(c, registry.val)
              ELSE Done(Config(appendUniqueRegistry(c.Registries, registry.val), c.Harnesses)))

AddGitRegistry(c, source, ref) ==
  IF ~IsGitSource(TrimSpace(source)) THEN Failed(c, "invalid git registry source")
  ELSE Bind(normalizeRegistry(Registry(<<>>, <<>>, RegistryTypeGit, TrimSpace(source),
                                       TrimSpace(ref), <<>>)),
            LAMBDA registry :
              IF ~registry.ok THEN Failed(c, registry.val)
              ELSE Done(Config(appendUniqueRegistry(c.Registries, registry.val), c.Harnesses)))

AddRegistry(c, input) ==
  IF TrimSpace(input) = <<>> THEN Failed(c, "path is empty")
  ELSE IF IsGitSource(splitGitRef(TrimSpace(input))[1])
    THEN AddGitRegistry(c, splitGitRef(TrimSpace(input))[1], splitGitRef(TrimSpace(input))[2])
  ELSE AddLocalRegistry(c, TrimSpace(input))

RemoveRegistryByID(c, identifier) ==
  IF TrimSpace(identifier) = <<>> THEN Done(c)
  ELSE Done(Config(SelectSeq(c.Registries,
                             LAMBDA registry : registry.ID # TrimSpace(identifier)),
                   c.Harnesses))

RemoveRegistry(c, identifier) ==
  IF TrimSpace(identifier) = <<>> THEN Done(c)
  ELSE Done(Config(SelectSeq(c.Registries,
                             LAMBDA registry : ~(\/ registry.ID = TrimSpace(identifier)
                                                 \/ registry.Source = TrimSpace(identifier))),
                   c.Harnesses))

AddHarness(c, path) ==
  IF ~ExpandPath(path).ok THEN Failed(c, "path is empty")
  ELSE Done(Config(c.Registries, appendUniquePath(c.Harnesses, ExpandPath(path).val)))

RemoveHarness(c, path) == Done(Config(c.Registries, removePath(c.Harnesses, path)))

\* The configuration document: missing, undecodable, or a TOML document in
\* the current schema (registries as records) or the legacy one (registries
\* as path strings).  An empty registries array decodes under both schemas.
V2Doc(registries, harnesses) == [kind |-> "v2", registries |-> registries, harnesses |-> harnesses]

V1Doc(registries, harnesses) == [kind |-> "v1", registries |-> registries, harnesses |-> harnesses]

CorruptDoc == [kind |-> "corrupt", registries |-> <<>>, harnesses |-> <<>>]

decodes(doc, schema) == doc.kind = schema \/ (doc.kind \in {"v1", "v2"} /\ doc.registries = <<>>)

loadV2(doc) ==
  IF ~decodes(doc, "v2") THEN Failed(Config(<<>>, <<>>), "toml: cannot decode as current schema")
  ELSE Done(Config(dedupeRegistries(normalizeRegistries(doc.registries)),
                   normalizePaths(doc.harnesses)))

RECURSIVE addLocalRegistries(_, _)
addLocalRegistries(c, paths) ==
  IF paths = <<>> THEN c
  ELSE Bind(AddLocalRegistry(c, Head(paths)).cfg, LAMBDA d : addLocalRegistries(d, Tail(paths)))

loadLegacyV1(doc) ==
  IF ~decodes(doc, "v1") THEN Failed(Config(<<>>, <<>>), "toml: cannot decode as legacy schema")
  ELSE Bind(addLocalRegistries(Config(<<>>, normalizePaths(doc.harnesses)), doc.registries),
            LAMBDA c : Done(Config(dedupeRegistries(c.Registries), c.Harnesses)))

\* What Load and Save leave: the configuration, the document on disk and
\* the error.
Left(c, doc, err) == [cfg |-> c, doc |-> doc, err |-> err]

LoadMigrating(c, doc) ==
  IF doc.kind = "missing" THEN Left(Config(<<>>, <<>>), doc, "")
  ELSE IF loadV2(doc).err = "" THEN Left(loadV2(doc).cfg, doc, "")
  ELSE IF loadLegacyV1(doc).err = ""
    THEN Left(loadLegacyV1(doc).cfg,
              V2Doc(loadLegacyV1(doc).cfg.Registries, loadLegacyV1(doc).cfg.Harnesses), "")
  ELSE Left(c, doc, loadV2(doc).err)

\* Load only reads the document (os.Stat, toml.DecodeFile).  It returns a
\* new configuration; the caller keeps the one it had when Load fails.
Load(c, doc) ==
  IF doc.kind = "missing" THEN Left(Config(<<>>, <<>>), doc, "")
  ELSE IF loadV2(doc).err = "" THEN Left(loadV2(doc).cfg, doc, "")
  ELSE IF loadLegacyV1(doc).err = "" THEN Left(loadLegacyV1(doc).cfg, doc, "")
  ELSE Left(c, doc, loadV2(doc).err)

\* What the file system lets Save do: write the document; refuse MkdirAll
\* or Create; or fail in the encoder's writes after Create has truncated
\* the file, leaving it empty or with part of the document.
SaveOutcomes == {"written", "denied", "truncated", "partial"}

\* Save normalizes the configuration in memory before it opens the file.
Save(c, doc, outcome) ==
  Bind(Config(dedupeRegistries(normalizeRegistries(c.Registries)), dedupePaths(c.Harnesses)),
       LAMBDA d :
         IF outcome = "denied" THEN Left(d, doc, "open: permission denied")
         ELSE IF outcome = "truncated" THEN Left(d, V2Doc(<<>>, <<>>), "write: no space left")
         ELSE IF outcome = "partial" THEN Left(d, CorruptDoc, "write: no space left")
         ELSE Left(d, V2Doc(d.Registries, d.Harnesses), ""))

-----------------------------------------------------------------------------
(* The configuration as a state machine: a document on disk, the           *)
(* configuration in memory, and the operations of package config on them.  *)

\* Operations run in one behaviour of the configuration.
MaxCfgOps == 2

FsIdle ==
  /\ fs = [p \in {<<>>} |-> DirNode(755)]
  /\ pre = fs
  /\ call = NoCall
  /\ ret = [err |-> "", res |-> NoResult]
  /\ steps = 0

Local(source) == Registry(<<>>, <<>>, RegistryTypeLocal, S(source), <<>>, <<>>)

Git(source, ref, subdir) == Registry(<<>>, <<>>, RegistryTypeGit, S(source), S(ref), S(subdir))

Named(r, name) == [r EXCEPT !.Name = S(name)]

WithID(r, id) == [r EXCEPT !.ID = S(id)]

Untyped(r) == [r EXCEPT !.Type = <<>>]

\* The documents a behaviour starts from.
Docs ==
  { NoDoc,
    CorruptDoc,
    \* typed records, one of a type normalization rejects
    V2Doc(<<Named(Local("/r/a"), "n"), Untyped(Git("https://h/r", "m", "")),
            [Local("/r/c") EXCEPT !.Type = S("svn")]>>, <<S(" /h "), S("/h/")>>),
    \* the same registry under two names
    V2Doc(<<Named(Local("/r/a"), "n"), Named(Local(" /r/a/ "), "o")>>, <<>>),
    \* the same registry under two explicit ids
    V2Doc(<<WithID(Local("/r/a"), "x"), WithID(Local("/r/a"), "y")>>, <<>>),
    \* two registries under one explicit id
    V2Doc(<<WithID(Local("/r/a"), "x"), WithID(Local("/r/c"), "x")>>, <<>>),
    \* subdirectories that mix slashes and spaces
    V2Doc(<<Git("https://h/r", "", "/ s/"), Git("https://h/r", "", "s")>>, <<>>),
    \* the legacy schema
    V1Doc(<<S("/r/a"), S(" /r/a/ "), S(" "), S("r")>>, <<S("/h")>>),
    \* the legacy schema, with a directory whose name is a space
    V1Doc(<<S("/r/ /"), S("/r/c")>>, <<>>) }

RegistryInputs ==
  {S("/r/a"), S(" /r/a/ "), S("r"), S("https://h/r"), S("https://h/r#m"), S("git@h:r"),
   S(" "), S("https://h")}

Identifiers == {S("x"), S(" /r/a "), S(" ")}

HarnessInputs == {S("/h"), S(" /h/ "), S(""), S("/h/ /")}

\* A behaviour starts with a new, empty configuration, or with the one the
\* program loaded from the document when it started.
InitConfig ==
  /\ disk \in Docs
  /\ \E c \in {Config(<<>>, <<>>), Load(Config(<<>>, <<>>), disk).cfg} :
       /\ regs = c.Registries
       /\ harn = c.Harnesses
  /\ cpre = [regs |-> regs, harn |-> harn, disk |-> disk]
  /\ rcall = NoCfgCall
  /\ rret = [err |-> ""]
  /\ rprev = [call |-> NoCfgCall, err |-> ""]
  /\ rsteps = 0
  /\ FsIdle
  /\ IdIdle
  /\ SyncIdle

\* What every operation leaves behind: the state before it, the call and
\* its error, and the call before it.
Called(op, arg, c, doc, err) ==
  /\ regs' = c.Registries
  /\ harn' = c.Harnesses
  /\ disk' = doc
  /\ cpre' = [regs |-> regs, harn |-> harn, disk |-> disk]
  /\ rprev' = [call |-> rcall, err |-> rret.err]
  /\ rcall' = [op |-> op, arg |-> arg]
  /\ rret' = [err |-> err]
  /\ rsteps' = rsteps + 1
  /\ UNCHANGED <<fsVars, idVars, syncVars>>

DoLoad ==
  \E out \in {Load(Config(regs, harn), disk)} :
    Called("load", <<>>, out.cfg, out.doc, out.err)

DoSave(outcome) ==
  \E out \in {Save(Config(regs, harn), disk, outcome)} :
    Called("save", <<>>, out.cfg, out.doc, out.err)

DoAddRegistry(input) ==
  \E out \in {AddRegistry(Config(regs, harn), input)} :
    Called("add", input, out.cfg, disk, out.err)

DoRemoveRegistry(identifier) ==
  \E out \in {RemoveRegistry(Config(regs, harn), identifier)} :
    Called("remove", identifier, out.cfg, disk, out.err)

DoAddHarness(path) ==
  \E out \in {AddHarness(Config(regs, harn), path)} :
    Called("addHarness", path, out.cfg, disk, out.err)

DoRemoveHarness(path) ==
  \E out \in {RemoveHarness(Config(regs, harn), path)} :
    Called("removeHarness", path, out.cfg, disk, out.err)

\* Room for one more operation in a behaviour of the configuration.
MoreOps == rsteps < MaxCfgOps

NextConfig ==
  \/ MoreOps /\ DoLoad
  \/ MoreOps /\ \E outcome \in SaveOutcomes : DoSave(outcome)
  \/ MoreOps /\ \E input \in RegistryInputs : DoAddRegistry(input)
  \/ MoreOps /\ \E identifier \in Identifiers \cup {regs[i].ID : i \in 1..Len(regs)} :
                   DoRemoveRegistry(identifier)
  \/ MoreOps /\ \E path \in HarnessInputs : DoAddHarness(path)
  \/ MoreOps /\ \E path \in HarnessInputs : DoRemoveHarness(path)

SpecConfig == InitConfig /\ [][NextConfig]_vars

-----------------------------------------------------------------------------
(* Registry identity: normalizeRegistry and RegistryCachePath applied to   *)
(* two registry records, and again after the first is renamed.             *)

\* Renamings in one behaviour.
MaxRenames == 1

RawRegistries ==
  { Local("/r/a"), Named(Local("/r/a"), "n"), Untyped(Named(Local(" /r/a/ "), " o ")),
    [Local("/r/a") EXCEPT !.Ref = S("m")], Local("r"), Local("/w/r"),
    WithID(Local("/r/a"), "x"), WithID(Named(Local("/r/a"), "n"), " y "),
    Git("https://h/r", "m", ""), Untyped(Named(Git(" https://h/r", " m ", "."), "n")),
    Git("https://h/r", "m", "/s/"), Named(Git("https://h/r", "m", "s"), "o"),
    [Local("/r/a") EXCEPT !.Type = S("svn")], Git("/r/a", "", ""), Local(" "),
    Git("https://h/r", "m|", "s"), Git("https://h/r", "m", "|s"),
    Git("https://h/r", "m", "/ s/") }

Names == {S(""), S("n"), S(" o ")}

Normalized(g, renames) ==
  [done |-> TRUE,
   n |-> <<normalizeRegistry(g[1]), normalizeRegistry(g[2])>>,
   p |-> <<RegistryCachePath(g[1]), RegistryCachePath(g[2])>>,
   renames |-> renames]

InitIdentity ==
  /\ given \in RawRegistries \X RawRegistries
  /\ norm = NoNorm
  /\ prevNorm = NoNorm
  /\ FsIdle
  /\ CfgIdle
  /\ SyncIdle

Normalize ==
  /\ ~norm.done
  /\ norm' = Normalized(given, 0)
  /\ UNCHANGED <<given, prevNorm, fsVars, cfgVars, syncVars>>

Rename(name) ==
  /\ norm.done
  /\ norm.renames < MaxRenames
  /\ name # given[1].Name
  /\ given' = <<[given[1] EXCEPT !.Name = name], given[2]>>
  /\ norm' = Normalized(given', norm.renames + 1)
  /\ prevNorm' = norm
  /\ UNCHANGED <<fsVars, cfgVars, syncVars>>

NextIdentity ==
  \/ Normalize
  \/ \E name \in Names : Rename(name)

SpecIdentity == InitIdentity /\ [][NextIdentity]_vars

-----------------------------------------------------------------------------
(* Claims about the registry model.                                        *)

SameFields(a, b) ==
  a.Type = b.Type /\ a.Source = b.Source /\ a.Ref = b.Ref /\ a.Subdir = b.Subdir

BothAccepted == norm.done /\ norm.n[1].ok /\ norm.n[2].ok

SameIdentity == norm.n[1].val.ID = norm.n[2].val.ID /\ norm.p[1] = norm.p[2]

\* The id and the cache path of the first registry are what they were
\* before it was renamed.
RenameKeepsIdentity ==
  (norm.done /\ prevNorm.done) =>
    /\ norm.n[1].ok = prevNorm.n[1].ok
    /\ norm.n[1].ok => norm.n[1].val.ID = prevNorm.n[1].val.ID
    /\ norm.p[1] = prevNorm.p[1]

\* C8 as stated: two registries whose normalized (type, source, ref,
\* subdir) are equal get the same id and the same cache path, whatever
\* their names (and whatever else the records carry); renaming a registry
\* changes neither its id nor its cache path.
C8_IdentityFromFieldsAlone ==
  /\ (BothAccepted /\ SameFields(norm.n[1].val, norm.n[2].val)) => SameIdentity
  /\ RenameKeepsIdentity

\* C8 amended: two registries whose normalized (type, source, ref, subdir)
\* are equal and whose records carry the same explicit id, or none, get the
\* same id and the same cache path, whatever their names; renaming a
\* registry changes neither its id nor its cache path.
C8_IdentityFromFieldsAndGivenID ==
  /\ (/\ BothAccepted
      /\ SameFields(norm.n[1].val, norm.n[2].val)
      /\ TrimSpace(given[1].ID) = TrimSpace(given[2].ID)) => SameIdentity
  /\ RenameKeepsIdentity

\* Two records that differ as written and in their names, with equal
\* normalized fields and no explicit id, after a renaming of the first.
C8_Witness ==
  /\ BothAccepted
  /\ prevNorm.done
  /\ SameFields(norm.n[1].val, norm.n[2].val)
  /\ given[1].ID = <<>> /\ given[2].ID = <<>>
  /\ given[1].Source # given[2].Source
  /\ norm.n[1].val.Name # norm.n[2].val.Name
  /\ norm.n[1].val.Name # prevNorm.n[1].val.Name

\* The identity of an entry of the collection: its normalized (type,
\* source, ref, subdir).
NormalFields(r) ==
  Bind(normalizeRegistry(r),
       LAMBDA n : IF n.ok THEN <<n.val.Type, n.val.Source, n.val.Ref, n.val.Subdir>>
                  ELSE <<"rejected", r>>)

Loaded == rcall.op = "load" /\ rret.err = ""

Saved == rcall.op = "save"

\* C9: after Load has returned a configuration, and after Save has run,
\* no two entries of the registry collection have equal normalized (type,
\* source, ref, subdir).
C9_NoTwoEntriesWithEqualFields ==
  (Loaded \/ Saved) =>
    \A i, j \in 1..Len(regs) : i < j => NormalFields(regs[i]) # NormalFields(regs[j])

AddedAgain == rcall.op = "add" /\ rprev.call = rcall /\ rprev.err = ""

\* The entries that stand for the registry an input names.
EntriesFor(input) ==
  {i \in 1..Len(regs) :
     \E one \in {AddRegistry(Config(<<>>, <<>>), input).cfg.Registries} :
       Len(one) = 1 /\ (regs[i].ID = one[1].ID \/ SameFields(regs[i], one[1]))}

\* C10: AddRegistry called a second time with an input it accepted
\* returns no error and leaves the registry collection as the first call
\* left it, with an entry for the input in it.
C10_AddRegistryIdempotent ==
  AddedAgain =>
    /\ rret.err = ""
    /\ regs = cpre.regs
    /\ EntriesFor(rcall.arg) # {}

\* The same input added twice to a configuration that held another
\* registry before.
C10_Witness ==
  /\ AddedAgain
  /\ rret.err = ""
  /\ Len(regs) >= 2
  /\ \E i \in 1..Len(regs) : ~SameFields(regs[i], regs[CHOOSE k \in EntriesFor(rcall.arg) : TRUE])

Removing == rcall.op = "remove"

\* The positions of the previous collection whose entry has neither id
\* nor source equal to x, and the collection they make, in their order.
KeptBy(x) == {i \in 1..Len(cpre.regs) : cpre.regs[i].ID # x /\ cpre.regs[i].Source # x}

NthKept(x, k) == CHOOSE i \in KeptBy(x) : Cardinality({j \in KeptBy(x) : j < i}) = k - 1

IsPreviousMinus(x) ==
  /\ Len(regs) = Cardinality(KeptBy(x))
  /\ \A k \in 1..Len(regs) : regs[k] = cpre.regs[NthKept(x, k)]

\* C11 as stated: RemoveRegistry(x) leaves the previous collection minus
\* every entry whose id or source equals x, the rest unchanged and in
\* order; a blank x changes nothing; no error; the harness list is
\* unchanged.
C11_RemovesEntriesEqualToArgument ==
  Removing =>
    /\ rret.err = ""
    /\ harn = cpre.harn
    /\ IF TrimSpace(rcall.arg) = <<>> THEN regs = cpre.regs ELSE IsPreviousMinus(rcall.arg)

\* C11 amended: RemoveRegistry(x) leaves the previous collection minus
\* every entry whose id or source equals x with its surrounding white
\* space trimmed, the rest unchanged and in order; when nothing matches or
\* x is blank the collection is unchanged; no error; the harness list and
\* the document are unchanged.
C11_RemovesEntriesEqualToTrimmedArgument ==
  Removing =>
    /\ rret.err = ""
    /\ harn = cpre.harn
    /\ disk = cpre.disk
    /\ IF TrimSpace(rcall.arg) = <<>> THEN regs = cpre.regs
       ELSE IsPreviousMinus(TrimSpace(rcall.arg))
    /\ KeptBy(TrimSpace(rcall.arg)) = 1..Len(cpre.regs) => regs = cpre.regs

\* A removal by source that takes one entry out of a collection and
\* leaves another, with a harness configured.
C11_Witness ==
  /\ Removing
  /\ \E i \in 1..Len(cpre.regs) : cpre.regs[i].Source = TrimSpace(rcall.arg)
  /\ Len(regs) >= 1
  /\ Len(regs) < Len(cpre.regs)
  /\ harn # <<>>

LoadedLegacy == rcall.op = "load" /\ cpre.disk.kind = "v1"

\* The normalized absolute forms of the paths of the legacy document that
\* path normalization accepts.
LegacySources ==
  {ExpandPath(cpre.disk.registries[i]).val :
     i \in {k \in 1..Len(cpre.disk.registries) : ExpandPath(cpre.disk.registries[k]).ok}}

\* C12: loading a legacy document returns, without error, exactly one
\* registry per distinct normalized path, each of type local with an empty
\* ref and the normalized absolute form of its path as source; a path that
\* fails normalization is dropped and the others still load.
C12_LegacyLoadsOnePerPath ==
  LoadedLegacy =>
    /\ rret.err = ""
    /\ Len(regs) = Cardinality(LegacySources)
    /\ {regs[i].Source : i \in 1..Len(regs)} = LegacySources
    /\ \A i \in 1..Len(regs) : regs[i].Type = RegistryTypeLocal /\ regs[i].Ref = <<>>

Loading == rcall.op = "load"

\* C13: Load leaves the document on disk as it was, in every case; a
\* missing document gives an empty configuration and no error and stays
\* missing; a legacy document stays in legacy form until Save; nothing but
\* Save changes the document, and what Save writes is never in the legacy
\* schema: on success it is the configuration in the current schema.
C13_LoadNeverWrites ==
  /\ Loading => disk = cpre.disk
  /\ (Loading /\ cpre.disk.kind = "missing") =>
       rret.err = "" /\ regs = <<>> /\ harn = <<>> /\ disk.kind = "missing"
  /\ (Loading /\ cpre.disk.kind \in {"v1", "v2"}) => rret.err = ""
  /\ (Loading /\ cpre.disk.kind = "corrupt") => rret.err # "" /\ regs = cpre.regs
  /\ ~Saved => disk = cpre.disk
  /\ (Saved /\ disk # cpre.disk) => disk.kind # "v1"
  /\ (Saved /\ rret.err = "") => disk = V2Doc(regs, harn)

\* A legacy document with registries loaded into memory and still in
\* legacy form on disk.
C13_Witness ==
  /\ Loading
  /\ cpre.disk.kind = "v1"
  /\ Len(regs) >= 2
  /\ \A i \in 1..Len(regs) : regs[i].Type = RegistryTypeLocal
  /\ disk.kind = "v1"

-----------------------------------------------------------------------------
(* Save and Load as a round trip: a configuration is built in memory by    *)
(* the four mutators, saved, and loaded again.                             *)

\* Mutator calls that build the configuration before it is saved.
MaxBuilt == 2

Building == rcall.op \notin {"save", "load"}

InitRoundTrip ==
  /\ regs = <<>>
  /\ harn = <<>>
  /\ disk \in {NoDoc, V1Doc(<<S("/r/a")>>, <<S("/h")>>)}
  /\ cpre = [regs |-> regs, harn |-> harn, disk |-> disk]
  /\ rcall = NoCfgCall
  /\ rret = [err |-> ""]
  /\ rprev = [call |-> NoCfgCall, err |-> ""]
  /\ rsteps = 0
  /\ FsIdle
  /\ IdIdle
  /\ SyncIdle

CanBuild == Building /\ rsteps < MaxBuilt

NextRoundTrip ==
  \/ CanBuild /\ \E input \in RegistryInputs : DoAddRegistry(input)
  \/ CanBuild /\ \E identifier \in Identifiers \cup {regs[i].ID : i \in 1..Len(regs)} :
                   DoRemoveRegistry(identifier)
  \/ CanBuild /\ \E path \in HarnessInputs : DoAddHarness(path)
  \/ CanBuild /\ \E path \in HarnessInputs : DoRemoveHarness(path)
  \/ Building /\ \E outcome \in SaveOutcomes : DoSave(outcome)
  \/ rcall.op = "save" /\ DoLoad

SpecRoundTrip == InitRoundTrip /\ [][NextRoundTrip]_vars

LoadedAfterSave == Loading /\ rprev.call.op = "save" /\ rprev.err = ""

\* C14: a Load that follows a successful Save returns, without error, the
\* registries (same entries in the same order) and the harness paths the
\* configuration held after the Save.
C14_SaveLoadRoundTrip ==
  LoadedAfterSave => rret.err = "" /\ regs = cpre.regs /\ harn = cpre.harn

-----------------------------------------------------------------------------
(* RegistrySync (package registrysync).  The cache is a function from the  *)
(* cache paths that exist to what is there: a git working copy with its    *)
(* recorded origin URL, or a directory without git metadata.  git is an    *)
(* external program: each invocation exits with success or failure, or is *)
(* killed when the context of the sync has expired.                        *)

filepathDir(s) ==
  IF LastIndex(s, "/") = 0 THEN S(".") ELSE filepathClean(SubSeq(s, 1, LastIndex(s, "/")))

Repo(origin) == [kind |-> "repo", origin |-> origin]

PlainDir == [kind |-> "plain", origin |-> <<>>]

\* path is dir or lies beneath it.
Under(path, dir) == path = dir \/ HasPrefix(path, dir \o S("/")) \/ dir = S("/")

cachePut(c, path, entry) == [p \in DOMAIN c \cup {path} |-> IF p = path THEN entry ELSE c[p]]

\* os.Stat of a directory of the cache finds it.
cacheHas(c, dir) == \E p \in DOMAIN c : Under(p, dir)

\* os.RemoveAll: the tree at dir goes, the directory that held it stays.
cacheRemoveAll(c, dir) ==
  Bind([p \in {q \in DOMAIN c : ~Under(q, dir)} |-> c[p]], LAMBDA rest :
    IF cacheHas(c, dir) /\ ~cacheHas(rest, filepathDir(dir))
      THEN cachePut(rest, filepathDir(dir), PlainDir)
    ELSE rest)

isGitRepoNever(c, path) == FALSE

isGitRepo(c, path) == path \in DOMAIN c /\ c[path].kind = "repo"

SyncError(step, err) == [step |-> step, err |-> err]

PlainError(err) == [step |-> "", err |-> err]

\* The argument lists of the git commands, by the step they make.
cloneArgs(registry, repoPath) ==
  [NoCommand EXCEPT !.cmd = "clone",
                    !.ref = IF TrimSpace(registry.Ref) # <<>> THEN registry.Ref ELSE <<>>,
                    !.source = registry.Source,
                    !.target = repoPath]

fetchArgs(registry) ==
  [NoCommand EXCEPT !.cmd = "fetch",
                    !.ref = IF TrimSpace(registry.Ref) # <<>> THEN registry.Ref ELSE <<>>]

gitArgs(cmd) == [NoCommand EXCEPT !.cmd = cmd]

gitOutputSuppressed(dir, interactive, args) ==
  [args EXCEPT !.dir = dir, !.promptOff = TRUE,
               !.stdio = IF interactive THEN "terminal" ELSE "captured"]

\* gitOutput: the command as it is started.  Not interactive: the
\* environment gets GIT_TERMINAL_PROMPT=0 and the output is captured;
\* interactive: the command inherits stdin, stdout and stderr.
gitOutput(dir, interactive, args) ==
  [args EXCEPT !.dir = dir, !.promptOff = ~interactive,
               !.stdio = IF interactive THEN "terminal" ELSE "captured"]

originDiffers(originURL, registry) == TrimSpace(originURL) # TrimSpace(registry.Source)

\* The SyncRegistry call as a process: returned, or waiting for a git
\* command it started.
Returned(s, err) == [s EXCEPT !.pc = "idle", !.err = err, !.running = NoCommand]

Launch(s, command) == [s EXCEPT !.pc = command.cmd, !.running = command]

Logged(s, result, output) ==
  [s EXCEPT !.log = Append(@, [command |-> s.running, result |-> result, output |-> output])]

\* SyncRegistry up to the first git command.
startSync(c, done, registry, interactive, timeout, mkdir) ==
  Bind([NoSync EXCEPT !.op = "sync", !.registry = registry, !.interactive = interactive,
                      !.timeout = timeout, !.before = c,
                      !.wasSynced = \E d \in done : d.registry = registry],
       LAMBDA s :
         IF registry.Type # RegistryTypeGit THEN Returned(s, PlainError("registry is not remote"))
         ELSE Bind(RegistryCachePath(registry), LAMBDA repoPath :
           IF ~repoPath.ok THEN Returned(s, PlainError(repoPath.val))
           ELSE IF mkdir # "ok" THEN Returned(s, PlainError("mkdir: permission denied"))
           ELSE IF ~isGitRepo(c, repoPath.val)
             THEN Launch([s EXCEPT !.repoPath = repoPath.val],
                         gitOutput(<<>>, interactive, cloneArgs(registry, repoPath.val)))
           ELSE Launch([s EXCEPT !.repoPath = repoPath.val],
                       gitOutput(repoPath.val, FALSE, gitArgs("origin-url")))))

Now(c, s) == [cache |-> c, sync |-> s]

\* cloneRepo after git clone has exited.  A clone that is killed may leave
\* part of the working copy behind.
cloneExited(c, s, outcome, partial) ==
  IF outcome = "ok"
    THEN Now(cachePut(c, s.repoPath, Repo(s.registry.Source)),
             Returned(Logged(s, outcome, <<>>), NoSyncError))
  ELSE Now(IF outcome = "killed" /\ partial /\ s.repoPath \notin DOMAIN c
             THEN cachePut(c, s.repoPath, Repo(s.registry.Source)) ELSE c,
           Returned(Logged(s, outcome, <<>>), SyncError("clone", outcome)))

removeFailed(c, s, partial) ==
  Now(IF partial THEN cachePut(c, s.repoPath, PlainDir) ELSE c,
      Returned([s EXCEPT !.log = Append(@, [command |-> gitArgs("remove"), result |-> "fail",
                                           output |-> <<>>])],
               PlainError("remove: permission denied")))

removeDone(c, s) ==
  Now(cacheRemoveAll(c, s.repoPath),
      Launch([s EXCEPT !.log = Append(@, [command |-> gitArgs("remove"), result |-> "ok",
                                         output |-> <<>>])],
             gitOutput(<<>>, s.interactive, cloneArgs(s.registry, s.repoPath))))

originMatchedAlways(c, s, originURL, removal, partial) ==
  Now(c, Launch(s, gitOutput(s.repoPath, s.interactive, fetchArgs(s.registry))))

\* SyncRegistry after the origin URL has been read.
originRead(c, s, originURL, removal, partial) ==
  IF originDiffers(originURL, s.registry)
    THEN IF removal = "ok" THEN removeDone(c, s) ELSE removeFailed(c, s, partial)
  ELSE Now(c, Launch(s, gitOutput(s.repoPath, s.interactive, fetchArgs(s.registry))))

originExited(c, s, outcome, removal, partial) ==
  IF outcome = "ok"
    THEN originRead(c, Logged(s, outcome, c[s.repoPath].origin \o S("\n")),
                    c[s.repoPath].origin \o S("\n"), removal, partial)
  ELSE Now(c, Returned(Logged(s, outcome, <<>>), SyncError("origin-url", outcome)))

fetchAndResetLenient(c, s, outcome) ==
  IF s.pc = "fetch"
    THEN Now(c, Launch(Logged(s, outcome, <<>>), gitOutput(s.repoPath, s.interactive, gitArgs("reset"))))
  ELSE IF s.pc = "reset"
    THEN IF outcome # "ok" THEN Now(c, Returned(Logged(s, outcome, <<>>), SyncError("reset", outcome)))
         ELSE Now(c, Launch(Logged(s, outcome, <<>>),
                            gitOutput(s.repoPath, s.interactive, gitArgs("clean"))))
  ELSE Now(c, Returned(Logged(s, outcome, <<>>), NoSyncError))

fetchAndResetStrict(c, s, outcome) ==
  IF outcome # "ok" THEN Now(c, Returned(Logged(s, outcome, <<>>), SyncError(s.pc, outcome)))
  ELSE IF s.pc = "fetch"
    THEN Now(c, Launch(Logged(s, outcome, <<>>), gitOutput(s.repoPath, s.interactive, gitArgs("reset"))))
  ELSE IF s.pc = "reset"
    THEN Now(c, Launch(Logged(s, outcome, <<>>), gitOutput(s.repoPath, s.interactive, gitArgs("clean"))))
  ELSE Now(c, Returned(Logged(s, outcome, <<>>), NoSyncError))

\* fetchAndReset after its git command (fetch, reset or clean) has exited.
fetchAndReset(c, s, outcome) ==
  IF s.pc = "fetch"
    THEN IF outcome # "ok" THEN Now(c, Returned(Logged(s, outcome, <<>>), SyncError("fetch", outcome)))
         ELSE Now(c, Launch(Logged(s, outcome, <<>>),
                            gitOutput(s.repoPath, s.interactive, gitArgs("reset"))))
  ELSE IF s.pc = "reset"
    THEN IF outcome # "ok" THEN Now(c, Returned(Logged(s, outcome, <<>>), SyncError("reset", outcome)))
         ELSE Now(c, Launch(Logged(s, outcome, <<>>),
                            gitOutput(s.repoPath, s.interactive, gitArgs("clean"))))
  ELSE Now(c, Returned(Logged(s, outcome, <<>>), NoSyncError))

\* SyncRegistry from the exit of the git command it waits for to its
\* return or to the next git command.
gitExited(c, s, outcome, removal, partial) ==
  IF s.pc = "clone" THEN cloneExited(c, s, outcome, partial)
  ELSE IF s.pc = "origin-url" THEN originExited(c, s, outcome, removal, partial)
  ELSE fetchAndReset(c, s, outcome)

\* os.MkdirAll of a directory of the cache.
cacheMkdirAll(c, dir) == IF cacheHas(c, dir) THEN c ELSE cachePut(c, dir, PlainDir)

\* RemoveRegistryCache: the cache and the error it leaves.  A removal that
\* the file system refuses may have removed part of the subtree.
RemoveRegistryCache(c, registry, removal, partial) ==
  Bind(RegistryCachePath(registry), LAMBDA repoPath :
    IF ~repoPath.ok THEN [cache |-> c, err |-> PlainError(repoPath.val)]
    ELSE IF ~cacheHas(c, filepathDir(repoPath.val)) THEN [cache |-> c, err |-> NoSyncError]
    ELSE IF removal # "ok"
      THEN [cache |-> IF partial THEN cacheRemoveAll(c, repoPath.val) ELSE c,
            err |-> PlainError("remove: permission denied")]
    ELSE [cache |-> cacheRemoveAll(c, filepathDir(repoPath.val)), err |-> NoSyncError])

-----------------------------------------------------------------------------
(* Registry sync as a state machine: SyncRegistry calls that run git       *)
(* command by command, the expiry of their timeout, and                    *)
(* RemoveRegistryCache.                                                    *)

\* Calls of SyncRegistry and RemoveRegistryCache in one behaviour.
MaxSyncs == 2

Normal(r) == normalizeRegistry(r).val

\* The registries synced: two git registries, two that share an explicit
\* id but not a source, a local one, and a git source with no type set.
SyncRegistries ==
  { Normal(Git("https://h/r", "", "")), Normal(Git("https://h/r", "m", "")),
    WithID(Git("https://h/r", "", ""), "x"), WithID(Git("https://h/v", "", ""), "x"),
    Normal(Local("/r/a")), Untyped(Git("https://h/r", "", "")) }

Timeouts == {0, 1}

EmptyCache == [p \in {} |-> PlainDir]

CachePathOf(r) == RegistryCachePath(r).val

InitialCaches ==
  { EmptyCache,
    cachePut(EmptyCache, CachePathOf(Git("https://h/r", "", "")), Repo(S("https://h/r"))),
    cachePut(EmptyCache, CachePathOf(Git("https://h/r", "", "")), Repo(S("https://h/v"))),
    cachePut(EmptyCache, CachePathOf(Git("https://h/r", "", "")), PlainDir),
    cachePut(EmptyCache, CachePathOf(Git("https://h/r", "m", "")), Repo(<<>>)) }

InitSync ==
  /\ cache \in InitialCaches
  /\ sync = NoSync
  /\ synced = {}
  /\ nsyncs = 0
  /\ FsIdle
  /\ CfgIdle
  /\ IdIdle

\* The working copies that successful syncs left and that are still there.
StillSynced(c) == {d \in synced : d.repoPath \in DOMAIN c /\ c[d.repoPath].kind = "repo"}

CallSync(registry, interactive, timeout, mkdir) ==
  /\ sync.pc = "idle"
  /\ nsyncs < MaxSyncs
  /\ \E s \in {startSync(cache, synced, registry, interactive, timeout, mkdir)} :
       /\ sync' = s
       /\ cache' = IF s.repoPath # <<>> THEN cacheMkdirAll(cache, filepathDir(s.repoPath))
                                          ELSE cache
  /\ nsyncs' = nsyncs + 1
  /\ UNCHANGED <<synced, fsVars, cfgVars, idVars>>

\* The git command the sync waits for exits: killed when the context has
\* expired, by itself otherwise.  git clone succeeds only into a path that
\* does not exist, and the origin URL is read only where one is recorded.
GitExit(outcome, removal, partial) ==
  /\ sync.pc # "idle"
  /\ outcome = "killed" <=> sync.expired
  /\ (sync.pc = "clone" /\ outcome = "ok") => sync.repoPath \notin DOMAIN cache
  /\ (sync.pc = "origin-url" /\ outcome = "ok") => cache[sync.repoPath].origin # <<>>
  /\ \E out \in {gitExited(cache, sync, outcome, removal, partial)} :
       /\ cache' = out.cache
       /\ sync' = out.sync
       /\ synced' = StillSynced(out.cache) \cup
                      (IF out.sync.pc = "idle" /\ out.sync.err = NoSyncError
                         THEN {[registry |-> sync.registry, repoPath |-> sync.repoPath]}
                       ELSE {})
  /\ UNCHANGED <<nsyncs, fsVars, cfgVars, idVars>>

\* The timeout of the sync in progress expires.
Expire ==
  /\ sync.pc # "idle"
  /\ sync.timeout > 0
  /\ ~sync.expired
  /\ sync' = [sync EXCEPT !.expired = TRUE]
  /\ UNCHANGED <<cache, synced, nsyncs, fsVars, cfgVars, idVars>>

CallRemoveCache(registry, removal, partial) ==
  /\ sync.pc = "idle"
  /\ nsyncs < MaxSyncs
  /\ \E out \in {RemoveRegistryCache(cache, registry, removal, partial)} :
       /\ cache' = out.cache
       /\ sync' = [NoSync EXCEPT !.op = "removeCache", !.registry = registry,
                                 !.err = out.err, !.before = cache]
       /\ synced' = StillSynced(out.cache)
  /\ nsyncs' = nsyncs + 1
  /\ UNCHANGED <<fsVars, cfgVars, idVars>>

NextSync ==
  \/ \E r \in SyncRegistries, i \in BOOLEAN, t \in Timeouts, m \in {"ok", "denied"} :
       CallSync(r, i, t, m)
  \/ \E o \in {"ok", "fail", "killed"}, removal \in {"ok", "fail"}, partial \in BOOLEAN :
       GitExit(o, removal, partial)
  \/ Expire
  \/ \E r \in SyncRegistries, removal \in {"ok", "fail"}, partial \in BOOLEAN :
       CallRemoveCache(r, removal, partial)

SpecSync == InitSync /\ [][NextSync]_vars

-----------------------------------------------------------------------------
(* Claims about registry sync.                                             *)

\* The steps the sync has finished, in order, and the one it waits for.
Steps == [i \in 1..Len(sync.log) |-> sync.log[i].command.cmd]

StepsBegun == {Steps[i] : i \in 1..Len(sync.log)} \cup
              (IF sync.pc = "idle" THEN {} ELSE {sync.running.cmd})

\* The sync read an origin URL that is not the configured source.
OriginMismatch ==
  /\ sync.op = "sync"
  /\ Len(sync.log) >= 1
  /\ sync.log[1].command.cmd = "origin-url"
  /\ sync.log[1].result = "ok"
  /\ originDiffers(sync.log[1].output, sync.registry)

IsReclone(command) ==
  /\ command.cmd = "clone"
  /\ command.source = sync.registry.Source
  /\ command.target = sync.repoPath

\* C15: when the cache path holds git metadata whose origin URL differs
\* from the configured source, the sync removes the whole working copy at
\* the cache path and, the removal done, clones the configured source into
\* that same path, which is empty while the clone runs; a removal that
\* fails ends the sync with its error.  Fetch, reset and clean never run.
C15_MismatchRemovesAndReclones ==
  OriginMismatch =>
    /\ Len(sync.log) >= 2
    /\ sync.log[2].command.cmd = "remove"
    /\ StepsBegun \cap {"fetch", "reset", "clean"} = {}
    /\ sync.log[2].result # "ok" =>
         /\ Len(sync.log) = 2
         /\ sync.pc = "idle"
         /\ sync.err # NoSyncError
    /\ sync.log[2].result = "ok" =>
         /\ sync.pc # "idle" =>
              /\ Len(sync.log) = 2
              /\ IsReclone(sync.running)
              /\ \A p \in DOMAIN cache : ~Under(p, sync.repoPath)
         /\ sync.pc = "idle" =>
              /\ Len(sync.log) = 3
              /\ IsReclone(sync.log[3].command)
              /\ sync.log[3].result = "ok" =>
                   /\ sync.err = NoSyncError
                   /\ cache[sync.repoPath] = Repo(sync.registry.Source)

C15_Witness ==
  /\ OriginMismatch
  /\ sync.pc = "idle"
  /\ sync.err = NoSyncError
  /\ Steps = <<"origin-url", "remove", "clone">>
  /\ sync.before[sync.repoPath].origin # sync.registry.Source
  /\ cache[sync.repoPath] = Repo(sync.registry.Source)

\* The sync read an origin URL that is the configured source.
OriginMatch ==
  /\ sync.op = "sync"
  /\ Len(sync.log) >= 1
  /\ sync.log[1].command.cmd = "origin-url"
  /\ sync.log[1].result = "ok"
  /\ ~originDiffers(sync.log[1].output, sync.registry)

RefreshOrder == <<"origin-url", "fetch", "reset", "clean">>

\* C16: when the origin matches the configured source, the sync runs
\* fetch, reset, clean in that order in the cache path: reset only after
\* fetch succeeded, clean only after reset succeeded, and once clean has
\* exited, however it exited, the sync returns success.
C16_RefreshRunsFetchResetClean ==
  OriginMatch =>
    /\ Len(sync.log) <= 4
    /\ Steps = SubSeq(RefreshOrder, 1, Len(sync.log))
    /\ sync.pc # "idle" =>
         /\ Len(sync.log) < 4
         /\ sync.running.cmd = RefreshOrder[Len(sync.log) + 1]
         /\ sync.running.dir = sync.repoPath
    /\ \A i \in 1..Len(sync.log) : i < Len(sync.log) => sync.log[i].result = "ok"
    /\ "reset" \in StepsBegun => sync.log[2].result = "ok"
    /\ "clean" \in StepsBegun => sync.log[3].result = "ok"
    /\ Len(sync.log) = 4 => sync.pc = "idle" /\ sync.err = NoSyncError

C16_Witness ==
  /\ OriginMatch
  /\ sync.pc = "idle"
  /\ Steps = RefreshOrder
  /\ sync.log[4].result = "fail"
  /\ sync.err = NoSyncError

SuccessPaths == {<<"clone">>, <<"origin-url", "remove", "clone">>, RefreshOrder}

Mandatory == {"clone", "fetch", "reset"}

\* C17: a sync returns a nil error only after every mandatory step of the
\* path it took succeeded (the clone, or the origin read, the removal and
\* the clone, or the origin read, fetch and reset followed by clean); a
\* failed clone, fetch or reset is the last step of its sync, which returns
\* a SyncError that names this step.
C17_NoSilentPartialSuccess ==
  sync.op = "sync" =>
    /\ (sync.pc = "idle" /\ sync.err = NoSyncError) =>
         /\ Steps \in SuccessPaths
         /\ \A i \in 1..Len(sync.log) : Steps[i] # "clean" => sync.log[i].result = "ok"
    /\ \A i \in 1..Len(sync.log) :
         (Steps[i] \in Mandatory /\ sync.log[i].result # "ok") =>
           /\ i = Len(sync.log)
           /\ sync.pc = "idle"
           /\ sync.err = SyncError(Steps[i], sync.log[i].result)

C17_Witness ==
  /\ sync.op = "sync"
  /\ sync.pc = "idle"
  /\ Steps = <<"origin-url", "fetch", "reset">>
  /\ sync.log[3].result = "fail"
  /\ sync.err = SyncError("reset", "fail")

\* The working copies that the call in progress, or the last call, found
\* and that are gone or replaced.
Deleted ==
  {p \in DOMAIN sync.before :
     sync.before[p].kind = "repo" /\ (p \notin DOMAIN cache \/ cache[p] # sync.before[p])}

\* C18: a sync of a git registry whose earlier sync succeeded, and whose
\* working copy has not been deleted since, uses the same cache path and
\* only refreshes in place: it starts neither a clone nor a removal and the
\* working copy stays.  A working copy is deleted only by a sync that found
\* an origin mismatch at its path or by RemoveRegistryCache.
C18_SyncIdempotentOnCache ==
  /\ \A d \in synced :
       /\ d.repoPath = CachePathOf(d.registry)
       /\ d.repoPath \in DOMAIN cache
       /\ cache[d.repoPath] = Repo(d.registry.Source)
  /\ sync.op = "sync" =>
       /\ sync.repoPath # <<>> => sync.repoPath = CachePathOf(sync.registry)
       /\ sync.wasSynced =>
            /\ StepsBegun \cap {"clone", "remove"} = {}
            /\ Steps = SubSeq(RefreshOrder, 1, Len(sync.log))
            /\ Deleted = {}
       /\ Deleted # {} => OriginMismatch /\ Deleted = {sync.repoPath}
  /\ Deleted # {} => sync.op \in {"sync", "removeCache"}

C18_Witness ==
  /\ sync.op = "sync"
  /\ sync.wasSynced
  /\ sync.pc = "idle"
  /\ Steps = RefreshOrder
  /\ sync.err = NoSyncError
  /\ cache = sync.before

\* The timeout of the sync expired before the sync had returned.
ExpiredInSync == sync.op = "sync" /\ sync.pc = "idle" /\ sync.expired

\* C19: a sync whose timeout (greater than zero) expired before it
\* completed, during clone, origin read, fetch, reset or clean, has its
\* running git command killed and returns an error.
C19_ExpiryFailsTheSync ==
  ExpiredInSync =>
    /\ sync.timeout > 0
    /\ sync.log[Len(sync.log)].result = "killed"
    /\ sync.err # NoSyncError

\* The git commands of the sync: those that exited and the one running.
Commands == {sync.log[i].command : i \in 1..Len(sync.log)} \cup
            (IF sync.pc = "idle" THEN {} ELSE {sync.running})

GitCommands == {command \in Commands : command.cmd # "remove"}

Suppressed(command) == command.promptOff /\ command.stdio = "captured"

OnTerminal(command) == ~command.promptOff /\ command.stdio = "terminal"

\* C20 as stated: every git command of a sync that is not interactive runs
\* with prompts suppressed and output captured, and every git command of an
\* interactive sync, the origin read included, runs on the terminal with
\* no prompt suppression.
C20_EveryCommandFollowsInteractive ==
  sync.op = "sync" =>
    \A command \in GitCommands :
      IF sync.interactive THEN OnTerminal(command) ELSE Suppressed(command)

\* C20: every git command of a sync that is not interactive runs with
\* prompts suppressed and output captured; in an interactive sync the
\* origin read still runs so, and every other git command (clone, fetch,
\* reset, clean) runs on the terminal with no prompt suppression.
C20_CommandsFollowInteractiveButOriginRead ==
  sync.op = "sync" =>
    \A command \in GitCommands :
      IF sync.interactive /\ command.cmd # "origin-url"
        THEN OnTerminal(command)
      ELSE Suppressed(command)

C20_Witness ==
  /\ sync.op = "sync"
  /\ sync.interactive
  /\ sync.pc = "idle"
  /\ Steps = RefreshOrder
  /\ Suppressed(sync.log[1].command)
  /\ OnTerminal(sync.log[2].command)

-----------------------------------------------------------------------------
(* The cache directory shared by several registries, some of them with an  *)
(* id given in the configuration document.                                 *)

RegistriesDir == filepathJoin(<<CacheRoot, S("skiller"), S("registries")>>)

\* The cache subtree that belongs to the registry with this id.
SubtreeOf(id) == filepathJoin(<<RegistriesDir, id>>)

\* Registries as Load hands them over: ids x and y, and ids that are no
\* single path segment.
CacheRegistries ==
  { WithID(Git("https://h/r", "", ""), "x"), WithID(Git("https://h/v", "", ""), "y"),
    WithID(Git("https://h/r", "", ""), ".."), WithID(Git("https://h/r", "", ""), "x/.."),
    WithID(Git("https://h/r", "", ""), "../..") }

\* The working copies of x and y with a file next to each, and the cache
\* of another program under the same cache root.
SharedCache ==
  [p \in {SubtreeOf(S("x")) \o S("/repo"), SubtreeOf(S("x")) \o S("/p"),
          SubtreeOf(S("y")) \o S("/repo"), CacheRoot \o S("/o"),
          filepathJoin(<<CacheRoot, S("skiller"), S("repo")>>)} |->
     IF p = SubtreeOf(S("x")) \o S("/repo") THEN Repo(S("https://h/r"))
     ELSE IF p = SubtreeOf(S("y")) \o S("/repo") THEN Repo(S("https://h/v"))
     ELSE IF p = filepathJoin(<<CacheRoot, S("skiller"), S("repo")>>)
       THEN Repo(S("https://h/o"))
     ELSE PlainDir]

InitCache ==
  /\ cache \in {EmptyCache, SharedCache}
  /\ sync = NoSync
  /\ synced = {}
  /\ nsyncs = 0
  /\ FsIdle
  /\ CfgIdle
  /\ IdIdle

NextCache ==
  \/ \E r \in CacheRegistries, m \in {"ok", "denied"} : CallSync(r, FALSE, 0, m)
  \/ \E o \in {"ok", "fail"}, removal \in {"ok", "fail"}, partial \in BOOLEAN :
       GitExit(o, removal, partial)
  \/ \E r \in CacheRegistries, removal \in {"ok", "fail"}, partial \in BOOLEAN :
       CallRemoveCache(r, removal, partial)

SpecCache == InitCache /\ [][NextCache]_vars

-----------------------------------------------------------------------------
(* Claims about the cache subtrees.                                        *)

\* The paths of the cache before the call that are as they were.
Kept == {p \in DOMAIN sync.before : p \in DOMAIN cache /\ cache[p] = sync.before[p]}

\* The id is one path segment that names a directory entry.
IsSegment(id) == id # <<>> /\ Index(id, "/") = 0 /\ id \notin {S("."), S("..")}

\* The subtrees of the registries with another id, a proper one.
OtherSubtrees(id) ==
  {SubtreeOf(Normal(r).ID) :
     r \in {q \in CacheRegistries : Normal(q).ID # id /\ IsSegment(Normal(q).ID)}}

\* C21: RemoveRegistryCache(r), unless the file system refuses the removal,
\* returns no error and leaves nothing of the subtree registries/<id of r>;
\* when the subtree did not exist the cache is unchanged, and the subtrees
\* of the registries with another id are unchanged.
C21_RemoveCacheDeletesOwnSubtreeOnly ==
  sync.op = "removeCache" =>
    /\ sync.err \in {NoSyncError, PlainError("remove: permission denied")}
    /\ sync.err = NoSyncError =>
         \E id \in {Normal(sync.registry).ID} :
           /\ ~cacheHas(cache, SubtreeOf(id))
           /\ ~cacheHas(sync.before, SubtreeOf(id)) => cache = sync.before
           /\ \A sub \in OtherSubtrees(id) :
                \A p \in DOMAIN sync.before : Under(p, sub) => p \in Kept

\* C25: the cache path of every registry that a call was made for is
\* <cacheRoot>/skiller/registries/<id>/repo with <id> one path segment, and
\* whatever a SyncRegistry or RemoveRegistryCache call deleted or replaced
\* lay in the subtree registries/<id> of its registry.
C25_DeletionsStayInOwnSubtree ==
  sync.op \in {"sync", "removeCache"} =>
    \E id \in {Normal(sync.registry).ID} :
      /\ IsSegment(id)
      /\ CachePathOf(sync.registry) = RegistriesDir \o S("/") \o id \o S("/repo")
      /\ \A p \in DOMAIN sync.before \ Kept : Under(p, RegistriesDir \o S("/") \o id)

-----------------------------------------------------------------------------
(* ScanEngine: scan.ScanRegistry, scan.ScanHarness.                        *)

\* The error of os.Stat: every link on the way, the last one included, is
\* followed.
RECURSIVE walkError(_, _, _, _)
walkError(f, cur, rest, fuel) ==
  IF rest = <<>> THEN ""
  ELSE IF cur \notin DOMAIN f THEN "ENOENT"
  ELSE IF f[cur].kind # "dir" THEN "ENOTDIR"
  ELSE IF Head(rest) = "." THEN walkError(f, cur, Tail(rest), fuel)
  ELSE IF Head(rest) = ".." THEN walkError(f, Dir(cur), Tail(rest), fuel)
  ELSE IF Append(cur, Head(rest)) \notin DOMAIN f THEN "ENOENT"
  ELSE IF f[Append(cur, Head(rest))].kind = "link"
    THEN IF fuel = 0 THEN "ELOOP"
         ELSE walkError(f, IF Relative(f[Append(cur, Head(rest))].target) THEN cur ELSE <<>>,
                        f[Append(cur, Head(rest))].target \o Tail(rest), fuel - 1)
  ELSE walkError(f, Append(cur, Head(rest)), Tail(rest), fuel)

\* A resolution that follows more links than there are goes in a circle.
statError(f, p) ==
  IF Len(p) > MaxPathLen THEN "ENAMETOOLONG"
  ELSE walkError(f, <<>>, p, Cardinality({q \in DOMAIN f : f[q].kind = "link"}))

Skill(name, path, parent) == [Name |-> name, Path |-> path, Parent |-> parent]

Scanned(skills, err) == [skills |-> skills, err |-> err]

\* hasSkillMarker: path/SKILL.md stats as a non-directory; a marker that is
\* not there is no error, any other failure of the stat is.
hasSkillMarker(f, path) ==
  Bind(statError(f, Join(path, <<"SKILL.md">>)), LAMBDA e :
    IF e = "" THEN [has |-> f[Stat(f, Join(path, <<"SKILL.md">>)).path].kind # "dir", err |-> ""]
    ELSE IF e = "ENOENT" THEN [has |-> FALSE, err |-> ""]
    ELSE [has |-> FALSE, err |-> e])

\* The position of a name in byte order, and the byte order of paths.
NamePos(n) == CHOOSE i \in 1..Len(NameOrder) : NameOrder[i] = n

RECURSIVE PathLess(_, _)
PathLess(p, q) ==
  IF q = <<>> THEN FALSE
  ELSE IF p = <<>> THEN TRUE
  ELSE IF Head(p) # Head(q) THEN NamePos(Head(p)) < NamePos(Head(q))
  ELSE PathLess(Tail(p), Tail(q))

\* The comparison sort.Slice is given by ScanRegistry.
skillLess(a, b) ==
  IF a.Name = b.Name THEN PathLess(a.Path, b.Path) ELSE NamePos(a.Name) < NamePos(b.Name)

RECURSIVE insertSkill(_, _)
insertSkill(sorted, s) ==
  IF sorted = <<>> THEN <<s>>
  ELSE IF skillLess(s, Head(sorted)) THEN <<s>> \o sorted
  ELSE <<Head(sorted)>> \o insertSkill(Tail(sorted), s)

RECURSIVE sortSkills(_)
sortSkills(skills) ==
  IF skills = <<>> THEN <<>> ELSE insertSkill(sortSkills(Tail(skills)), Head(skills))

\* The walk of ScanRegistry: the callback on the entry `path` of kind
\* `kind`, then, for a directory the callback did not skip, its entries.
\* A link is passed over and never read; a skill ends the descent.
RECURSIVE scanWalk(_, _, _, _, _)
RECURSIVE scanEntries(_, _, _, _, _)
scanWalk(f, cleanRoot, path, kind, skills) ==
  IF path = cleanRoot
    THEN IF kind = "dir" THEN scanEntries(f, cleanRoot, path, ReadDir(f, path), skills)
         ELSE Scanned(skills, "")
  ELSE IF kind # "dir" THEN Scanned(skills, "")
  ELSE Bind(hasSkillMarker(f, path), LAMBDA marker :
         IF marker.err # "" THEN Scanned(skills, marker.err)
         ELSE IF marker.has
           THEN Scanned(Append(skills, Skill(Base(path), path, cleanRoot)), "")
         ELSE scanEntries(f, cleanRoot, path, ReadDir(f, path), skills))

scanEntries(f, cleanRoot, path, entries, skills) ==
  IF entries = <<>> THEN Scanned(skills, "")
  ELSE Bind(scanWalk(f, cleanRoot, Append(path, Head(entries).name), Head(entries).kind,
                     skills),
            LAMBDA st :
              IF st.err # "" THEN st
              ELSE scanEntries(f, cleanRoot, path, Tail(entries), st.skills))

ScanRegistry(f, registryPath) ==
  Bind(Clean(registryPath), LAMBDA cleanRoot :
    IF statError(f, cleanRoot) # "" THEN Scanned(<<>>, statError(f, cleanRoot))
    ELSE IF ~StatIsDir(f, cleanRoot) THEN Scanned(<<>>, "registry path is not a directory")
    ELSE Bind(scanWalk(f, cleanRoot, cleanRoot, f[Lstat(f, cleanRoot).path].kind, <<>>),
              LAMBDA walked :
                IF walked.err # "" THEN Scanned(<<>>, walked.err)
                ELSE Scanned(sortSkills(walked.skills), "")))

\* The loop of ScanHarness over the entries of the harness.
RECURSIVE harnessEntries(_, _, _, _)
harnessEntries(f, cleanRoot, entries, skills) ==
  IF entries = <<>> THEN Scanned(skills, "")
  ELSE IF Head(entries).kind # "dir" THEN harnessEntries(f, cleanRoot, Tail(entries), skills)
  ELSE Bind(hasSkillMarker(f, Join(cleanRoot, <<Head(entries).name>>)), LAMBDA marker :
         IF marker.err # "" THEN Scanned(<<>>, marker.err)
         ELSE harnessEntries(f, cleanRoot, Tail(entries),
                IF marker.has
                  THEN Append(skills, Skill(Head(entries).name,
                                            Join(cleanRoot, <<Head(entries).name>>), cleanRoot))
                ELSE skills))

ScanHarness(f, harnessPath) ==
  Bind(Clean(harnessPath), LAMBDA cleanRoot :
    IF statError(f, cleanRoot) = "ENOENT" THEN Scanned(<<>>, "")
    ELSE IF statError(f, cleanRoot) # "" THEN Scanned(<<>>, statError(f, cleanRoot))
    ELSE IF ~StatIsDir(f, cleanRoot) THEN Scanned(<<>>, "harness path is not a directory")
    ELSE Bind(harnessEntries(f, cleanRoot, ReadDir(f, cleanRoot), <<>>), LAMBDA listed :
           IF listed.err # "" THEN listed ELSE Scanned(sortSkills(listed.skills), "")))

-----------------------------------------------------------------------------
(* The scans as a state machine: a tree, and one scan of it.               *)

Registry0 == <<"reg">>

MarkerShapes == {"none", "file", "dir", "link", "dangling", "loop"}

LinkShapes == {"none", "skill", "tree"}

MarkerNode(p, shape) ==
  CASE shape = "file" -> [q \in {p} |-> FileNode("# skill", 644, 1)]
    [] shape = "dir" -> [q \in {p} |-> DirNode(755)]
    [] shape = "link" -> [q \in {p} |-> LinkNode(<<"reg", "notes">>)]
    [] shape = "dangling" -> [q \in {p} |-> LinkNode(<<"gone">>)]
    [] shape = "loop" -> [q \in {p} |-> LinkNode(p)]
    [] OTHER -> [q \in {} |-> DirNode(755)]

\* Outside the registry: the skill ext, and the directory old that holds the
\* skill old/alpha; new is a link to the registry.
ScanBase ==
  [p \in {<<>>, Registry0, Registry0 \o <<"alpha">>, Registry0 \o <<"notes">>,
          Registry0 \o <<"deep">>, Registry0 \o <<"deep", "beta">>,
          <<"ext">>, <<"ext", "SKILL.md">>, <<"old">>, <<"old", "alpha">>,
          <<"old", "alpha", "SKILL.md">>, <<"new">>} |->
     CASE p = Registry0 \o <<"notes">> -> FileNode("notes", 644, 3)
       [] p = <<"ext", "SKILL.md">> -> FileNode("# ext", 644, 4)
       [] p = <<"old", "alpha", "SKILL.md">> -> FileNode("# old", 644, 5)
       [] p = <<"new">> -> LinkNode(Registry0)
       [] OTHER -> DirNode(755)]

ScanTree(marker, nested, rootMarker, link, deep) ==
  Merge(Merge(Merge(Merge(Merge(ScanBase,
    MarkerNode(Registry0 \o <<"alpha", "SKILL.md">>, marker)),
    IF nested
      THEN [q \in {Registry0 \o <<"alpha", "nested">>,
                   Registry0 \o <<"alpha", "nested", "SKILL.md">>} |->
              IF Len(q) = 3 THEN DirNode(755) ELSE FileNode("# nested", 644, 2)]
    ELSE MarkerNode(<<>>, "none")),
    IF rootMarker THEN MarkerNode(Registry0 \o <<"SKILL.md">>, "file")
    ELSE MarkerNode(<<>>, "none")),
    IF link = "none" THEN MarkerNode(<<>>, "none")
    ELSE [q \in {Registry0 \o <<"ref">>} |->
            LinkNode(IF link = "skill" THEN <<"ext">> ELSE <<"old">>)]),
    IF deep THEN MarkerNode(Registry0 \o <<"deep", "beta", "SKILL.md">>, "file")
    ELSE MarkerNode(<<>>, "none"))

ScanTrees ==
  {ScanTree(marker, nested, rootMarker, link, deep) :
     marker \in MarkerShapes, nested \in BOOLEAN, rootMarker \in BOOLEAN,
     link \in LinkShapes, deep \in BOOLEAN}

ScanRoots ==
  {Registry0, Registry0 \o <<".">>, <<"new">>, Registry0 \o <<"notes">>, <<"gone">>,
   Registry0 \o <<"alpha">>}

InitScan ==
  /\ fs \in ScanTrees
  /\ pre = fs
  /\ call = NoCall
  /\ ret = [err |-> "", res |-> <<>>]
  /\ steps = 0
  /\ CfgIdle
  /\ IdIdle
  /\ SyncIdle

DoScanRegistry(registryPath) ==
  /\ call = NoCall
  /\ \E out \in {ScanRegistry(fs, registryPath)} :
       ret' = [err |-> out.err, res |-> out.skills]
  /\ call' = [NoCall EXCEPT !.op = "scanRegistry", !.source = registryPath]
  /\ UNCHANGED <<fs, pre, steps, cfgVars, idVars, syncVars>>

DoScanHarness(harnessPath) ==
  /\ call = NoCall
  /\ \E out \in {ScanHarness(fs, harnessPath)} :
       ret' = [err |-> out.err, res |-> out.skills]
  /\ call' = [NoCall EXCEPT !.op = "scanHarness", !.harness = harnessPath]
  /\ UNCHANGED <<fs, pre, steps, cfgVars, idVars, syncVars>>

NextScan ==
  \/ \E root \in ScanRoots : DoScanRegistry(root)
  \/ \E root \in ScanRoots : DoScanHarness(root)

SpecScan == InitScan /\ [][NextScan]_vars

-----------------------------------------------------------------------------
(* Claims about the scans.                                                 *)

ScannedRegistry == call.op = "scanRegistry" /\ ret.err = ""

ScanRoot == Clean(call.source)

Reported == {ret.res[i].Path : i \in 1..Len(ret.res)}

\* The entry at p, the links above it followed, is a symbolic link.
IsLink(f, p) == Lstat(f, p).ok /\ f[Lstat(f, p).path].kind = "link"

\* The paths from the first name below the root down to p.
BelowRootTo(p) == {SubSeq(p, 1, k) : k \in (Len(ScanRoot) + 1)..Len(p)}

\* C22: no skill that ScanRegistry returns is a symbolic link or lies
\* beneath a symbolic link of the tree under the root, also when the link
\* points to a directory that holds a valid SKILL.md.
C22_ScanNeverFollowsLinks ==
  ScannedRegistry =>
    \A p \in Reported :
      /\ IsPrefix(ScanRoot, p)
      /\ \A q \in BelowRootTo(p) : ~IsLink(fs, q)

C22_Witness ==
  /\ ScannedRegistry
  /\ call.source = Registry0
  /\ IsLink(fs, Registry0 \o <<"ref">>)
  /\ hasSkillMarker(fs, Registry0 \o <<"ref">>).has
  /\ Registry0 \o <<"ref">> \notin Reported
  /\ Registry0 \o <<"alpha">> \in Reported

\* The real directory the root resolves to, and the paths under the root
\* that lead to a real directory without passing a link below the root.
RealDirsBelowRoot ==
  {ScanRoot \o Rel(Stat(fs, ScanRoot).path, q) :
     q \in {d \in Below(fs, Stat(fs, ScanRoot).path) :
              fs[d].kind = "dir" /\ d # Stat(fs, ScanRoot).path}}

HoldsMarker(p) ==
  /\ Stat(fs, p \o <<"SKILL.md">>).ok
  /\ fs[Stat(fs, p \o <<"SKILL.md">>).path].kind # "dir"

\* The skills that have no skill above them below the root.
TopmostSkills ==
  {p \in RealDirsBelowRoot :
     /\ HoldsMarker(p)
     /\ \A q \in BelowRootTo(p) : q # p => ~HoldsMarker(q)}

\* C23: a ScanRegistry that returns no error returns exactly the topmost
\* skills, each once: the real directories strictly below the root that
\* directly hold a non-directory SKILL.md and have no such directory above
\* them below the root; never the root, never a skill inside a skill, and
\* a directory whose SKILL.md is a directory is descended into.
C23_ScanReturnsTopmostSkills ==
  ScannedRegistry =>
    /\ Reported = TopmostSkills
    /\ Len(ret.res) = Cardinality(Reported)
    /\ ScanRoot \notin Reported
    /\ \A p \in Reported, q \in Reported : p # q => ~IsPrefix(p, q)

-----------------------------------------------------------------------------
(* CopyDir as a state machine: a source tree, and one copy of it to a      *)
(* destination that does not exist.                                        *)

RootPerms == {750, 700, 555}

NestedPerms == {755, 700, 555}

FilePerms == {644, 444, 200}

\* The skill reg/alpha with the given permission bits on its root, on the
\* directory nested and on SKILL.md, with or without the link ref.
CopyTree(rootPerm, nestedPerm, filePerm, link) ==
  Merge([p \in {<<>>, <<"reg">>, Source, Source \o <<"SKILL.md">>, Source \o <<"nested">>,
                Source \o <<"nested", "run.sh">>, Harness} |->
           CASE p = Source -> DirNode(rootPerm)
             [] p = Source \o <<"SKILL.md">> -> FileNode("# alpha", filePerm, 1)
             [] p = Source \o <<"nested">> -> DirNode(nestedPerm)
             [] p = Source \o <<"nested", "run.sh">> -> FileNode("#!/bin/sh", 750, 2)
             [] OTHER -> DirNode(755)],
        IF link THEN [q \in {Source \o <<"ref">>} |-> LinkNode(<<"reg", "shared">>)]
        ELSE [q \in {} |-> DirNode(755)])

CopyTrees ==
  {CopyTree(rootPerm, nestedPerm, filePerm, link) :
     rootPerm \in RootPerms, nestedPerm \in NestedPerms, filePerm \in FilePerms,
     link \in BOOLEAN}

Destinations == {Harness \o <<"alpha">>, <<"new", "deep">>, Source \o <<"new">>}

InitCopy ==
  /\ fs \in CopyTrees
  /\ pre = fs
  /\ call = NoCall
  /\ ret = [err |-> "", res |-> NoResult]
  /\ steps = 0
  /\ CfgIdle
  /\ IdIdle
  /\ SyncIdle

\* CopyDir(src, dst); the call is recorded with dst as its harness.
DoCopyDir(src, dst) ==
  /\ call = NoCall
  /\ ~Lstat(fs, dst).ok
  /\ \E out \in {CopyDir(fs, src, dst)} :
       /\ fs' = out.fs
       /\ ret' = [err |-> out.err, res |-> NoResult]
  /\ pre' = fs
  /\ call' = [NoCall EXCEPT !.op = "copy", !.source = src, !.harness = dst]
  /\ UNCHANGED <<steps, cfgVars, idVars, syncVars>>

NextCopy == \E dst \in Destinations : DoCopyDir(Source, dst)

SpecCopy == InitCopy /\ [][NextCopy]_vars

\* What the round trip compares of an entry: its kind, the content of a
\* file, the target of a link, the permission bits of a file or directory.
Compared(node) ==
  [kind |-> node.kind, data |-> node.data, target |-> node.target,
   perm |-> IF node.kind = "link" THEN 0 ELSE node.perm]

Comparison(f, p) == [r \in DOMAIN Tree(f, p) |-> Compared(Tree(f, p)[r])]

Copying == call.op = "copy"

\* C24: CopyDir(src, dst) of a tree of directories, regular files and
\* symbolic links with any permission bits to a destination that does not
\* exist succeeds, and afterwards src and dst hold the same relative paths
\* with the same file contents, link targets and permission bits, the root
\* directory included.
C24_CopyRoundTrip ==
  Copying =>
    /\ ret.err = ""
    /\ Lstat(fs, call.harness).ok
    /\ Comparison(fs, Lstat(fs, call.harness).path) = Comparison(fs, call.source)

-----------------------------------------------------------------------------
(* Containment of UninstallSkill.                                          *)

\* The paths the last call took away.
Removed == DOMAIN pre \ DOMAIN fs

\* The entries directly in the harness of the last call.
HarnessChildren == {p \in DOMAIN pre : Len(p) = Len(call.harness) + 1 /\ IsPrefix(call.harness, p)}

\* C26: whatever the skillName (empty, with separators, with ".."
\* segments), what UninstallSkill removes is one immediate child of the
\* harness: never the harness root, never a directory outside the harness.
C26_UninstallStaysInHarness ==
  (Uninstalling /\ Removed # {}) =>
    \E child \in HarnessChildren : \A p \in Removed : IsPrefix(child, p)

-----------------------------------------------------------------------------
(* Injectivity of the derived id.                                          *)

\* Both records were given without an id, so both ids are derived.
BothDerived == TrimSpace(given[1].ID) = <<>> /\ TrimSpace(given[2].ID) = <<>>

\* C27: with the hash collision-free on its input, two registries whose
\* normalized (type, source, ref, subdir) differ in any field get
\* different derived ids.
C27_DerivedIDInjective ==
  (BothAccepted /\ BothDerived /\ ~SameFields(norm.n[1].val, norm.n[2].val)) =>
    norm.n[1].val.ID # norm.n[2].val.ID

-----------------------------------------------------------------------------
(* Idempotence of normalizeRegistry.                                       *)

\* C29: for every registry that normalizeRegistry accepts, normalizing the
\* result again succeeds and returns the same record.
C29_NormalizeIdempotent ==
  norm.done =>
    \A i \in 1..2 :
      norm.n[i].ok => normalizeRegistry(norm.n[i].val) = norm.n[i]

-----------------------------------------------------------------------------
(* Termination of the walk of CopyDir.                                     *)

\* The entries the source tree held below its root when the call began.
SourceEntries == {p \in DOMAIN pre : IsPrefix(call.source, p) /\ p # call.source}

\* The entries the call made below its destination: one for each copy step
\* of the walk.
CopySteps == {p \in DOMAIN fs \ DOMAIN pre : IsPrefix(call.harness, p) /\ p # call.harness}

-----------------------------------------------------------------------------
(* Install and uninstall in turn: a skill whose marker is a file or a      *)
(* link, a harness that may hold entries of the skill's name, and the      *)
(* calls InstallSkill and UninstallSkill.                                  *)

MarkerKinds == {"file", "absolute", "inside", "outside"}

\* The marker of the source skill: a regular file, or a link to a regular
\* file: by an absolute target, by a relative one inside the skill, by a
\* relative one outside it (reg/notes).
SourceMarker(kind) ==
  CASE kind = "absolute" -> LinkNode(<<"ext", "SKILL.md">>)
    [] kind = "inside" -> LinkNode(<<".", "nested", "run.sh">>)
    [] kind = "outside" -> LinkNode(<<"..", "notes">>)
    [] OTHER -> FileNode("# alpha", 644, 1)

TripTrees ==
  {Merge(Merge([RegistrySide EXCEPT ![Source \o <<"SKILL.md">>] = SourceMarker(m)],
               Occupant(Harness \o <<"alpha">>, a)),
         Occupant(Harness \o <<Suffixed("alpha", 2)>>, b)) :
     m \in MarkerKinds, a \in {"absent", "skill", "file", "link", "dangling"},
     b \in {"absent", "skill"}}

TripHarnesses == {Harness, <<"reg">>, <<"new", "deep">>}

InstalledNames == {<<"alpha">>, <<Suffixed("alpha", 2)>>, <<Suffixed("alpha", 3)>>}

InitTrip ==
  /\ fs \in TripTrees
  /\ pre = fs
  /\ call = NoCall
  /\ ret = [err |-> "", res |-> NoResult]
  /\ steps = 0
  /\ CfgIdle
  /\ IdIdle
  /\ SyncIdle

NextTrip ==
  \/ \E h \in TripHarnesses, a \in KnownActions : Install(Source, h, a)
  \/ \E h \in TripHarnesses, n \in InstalledNames : Uninstall(h, n)

SpecTrip == InitTrip /\ [][NextTrip]_vars

\* The source of the last install was a valid skill: a directory with a
\* non-directory SKILL.md at its top level.
ValidSource == StatIsDir(pre, call.source) /\ hasSkillMarker(pre, call.source).has

\* The last call was a successful install into an existing harness, with no
\* conflict or with the action rename.
InstalledFresh ==
  /\ Installing /\ Succeeded /\ ret.res.Installed
  /\ ~ret.res.Conflict \/ call.action = ConflictRename
  /\ ValidSource
  /\ StatIsDir(pre, call.harness)

\* The names ScanHarness lists.
Listed(f, harnessPath) ==
  {ScanHarness(f, harnessPath).skills[k].Name :
     k \in 1..Len(ScanHarness(f, harnessPath).skills)}

\* C30: after a successful install of a valid skill into an existing
\* harness, with no conflict or with the action rename, ScanHarness lists
\* result.Name, and the UninstallSkill of result.Name that follows succeeds
\* and leaves the harness with exactly the entries it held before the
\* install.
C30_InstallUninstallRoundTrip ==
  [][(InstalledFresh /\ call'.op = "uninstall" /\ call'.harness = call.harness
        /\ call'.skill = <<ret.res.Name>>) =>
       /\ ret.res.Name \in Listed(fs, call.harness)
       /\ ret'.err = ""
       /\ Tree(fs', Stat(fs', call.harness).path) = Tree(pre, Stat(pre, call.harness).path)]_vars

====
